---- MODULE Spec2Model ----
(***************************************************************************)
(* Appointment scheduling and conflict-resolution engine of the            *)
(* ai-voice-automation-api: the appointment service, the repositories it   *)
(* calls, the date utilities, the tool-callback endpoints and the inbound  *)
(* call handler, as state machines over an abstract store.                 *)
(*                                                                         *)
(* Representation.  An instant is an integer number of minutes since the   *)
(* epoch (UTC).  A civil date "YYYY-MM-DD" is its day number since the     *)
(* epoch, a civil time "HH:mm" its minute of the day; localToUtc places    *)
(* them in the business timezone (a fixed offset: the modelled days hold   *)
(* no DST change).  An appointment id is its position in the table.        *)
(***************************************************************************)
EXTENDS Integers, Sequences, FiniteSets, TLC

\* ------------------------------------------------------------------------
\* Configuration (src/src/config/env.ts)
\* ------------------------------------------------------------------------
APPOINTMENT_DURATION_MINUTES == 30
APPOINTMENT_BUFFER_MINUTES == 15
BUSINESS_TIMEZONE_OFFSET == 300
businessDays == {1, 2, 3, 4, 5}
businessHoursStart == 9 * 60 + 0
businessHoursEnd == 17 * 60 + 0
SLOT_STEP_MINUTES == 15
LIST_LIMIT == 20
MINUTES_PER_DAY == 1440
EPOCH_WEEKDAY == 4

\* ------------------------------------------------------------------------
\* Bounds of the model
\* ------------------------------------------------------------------------
MaxAppointments == 2

\* ------------------------------------------------------------------------
\* Date utilities (date.utils)
\* ------------------------------------------------------------------------
addMinutes(instant, m) == instant + m

\* A time text "HH:mm" is its minute of the day, 0 .. 1439.  The TIME column
\* appointment_time gives back what was stored in it as "HH:mm:ss": the text
\* "HH:mm:00" is the minute of the day plus MINUTES_PER_DAY.
timeColumn(time) == MINUTES_PER_DAY + (time % MINUTES_PER_DAY)

\* whether parse(`${date} ${time}`, 'yyyy-MM-dd HH:mm', ...) yields a date:
\* text left over after the pattern makes the result an Invalid Date, and
\* fromZonedTime of an Invalid Date throws RangeError
parseValid(time) == time >= 0 /\ time < MINUTES_PER_DAY

\* parse(`${date} ${time}`) read as wall-clock time in the business timezone
localToUtc(date, time) ==
    date * MINUTES_PER_DAY + time + BUSINESS_TIMEZONE_OFFSET

calculateEndTime(startTime, durationMinutes) ==
    addMinutes(startTime, durationMinutes)

\* getDay() of the parsed civil date: 0 = Sunday .. 6 = Saturday
getDay(date) == (date + EPOCH_WEEKDAY) % 7

\* business hours that end before the closing minute
isWithinBusinessHoursHalfOpen(date, time) ==
    IF getDay(date) \notin businessDays
    THEN FALSE
    ELSE time >= businessHoursStart /\ time < businessHoursEnd

isWithinBusinessHours(date, time) ==
    IF getDay(date) \notin businessDays
    THEN FALSE
    ELSE time >= businessHoursStart /\ time <= businessHoursEnd

isBefore(a, b) == a < b
isAfter(a, b) == a > b
isWithinInterval(x, start, end) == start <= x /\ x <= end

\* an overlap test that leaves out the ends of the buffered interval
hasTimeConflictExclusive(newStart, newEnd, existingStart, existingEnd, bufferMinutes) ==
    LET bufferedExistingStart == addMinutes(existingStart, -bufferMinutes)
        bufferedExistingEnd == addMinutes(existingEnd, bufferMinutes)
    IN /\ isBefore(newStart, bufferedExistingEnd)
       /\ isAfter(newEnd, bufferedExistingStart)

hasTimeConflict(newStart, newEnd, existingStart, existingEnd, bufferMinutes) ==
    LET bufferedExistingStart == addMinutes(existingStart, -bufferMinutes)
        bufferedExistingEnd == addMinutes(existingEnd, bufferMinutes)
        newStartsWithinExisting ==
            isWithinInterval(newStart, bufferedExistingStart, bufferedExistingEnd)
        newEndsWithinExisting ==
            isWithinInterval(newEnd, bufferedExistingStart, bufferedExistingEnd)
        newWrapsExisting ==
            isBefore(newStart, bufferedExistingStart)
                /\ isAfter(newEnd, bufferedExistingEnd)
    IN newStartsWithinExisting \/ newEndsWithinExisting \/ newWrapsExisting

\* `clock` is the value new Date() returns when the call is made
isPastDateTime(date, time, clock) ==
    isBefore(localToUtc(date, time), clock)

\* ------------------------------------------------------------------------
\* Phone utilities (phone.utils).  A phone string is a sequence of
\* characters; NULL stands for null, undefined and the empty string, which
\* every use below treats alike (`!phone`, `x || y`).
\* ------------------------------------------------------------------------
NULL == << >>

DigitChars == {"0", "1", "2", "3", "4", "5", "6", "7", "8", "9"}
UpperChars == <<"A", "B", "C", "D", "E", "F", "G", "H", "I", "J", "K", "L", "M",
                "N", "O", "P", "Q", "R", "S", "T", "U", "V", "W", "X", "Y", "Z">>
LowerChars == <<"a", "b", "c", "d", "e", "f", "g", "h", "i", "j", "k", "l", "m",
                "n", "o", "p", "q", "r", "s", "t", "u", "v", "w", "x", "y", "z">>

toLowerChar(c) ==
    IF \E i \in DOMAIN UpperChars : UpperChars[i] = c
    THEN LowerChars[CHOOSE i \in DOMAIN UpperChars : UpperChars[i] = c]
    ELSE c

toLowerCase(str) == [i \in DOMAIN str |-> toLowerChar(str[i])]

AnonymousSentinels ==
    { <<"a", "n", "o", "n", "y", "m", "o", "u", "s">>,
      <<"r", "e", "s", "t", "r", "i", "c", "t", "e", "d">>,
      <<"b", "l", "o", "c", "k", "e", "d">>,
      <<"u", "n", "k", "n", "o", "w", "n">>,
      << >>,
      <<"+">> }

isAnonymousCaller(phone) ==
    IF phone = NULL THEN TRUE
    ELSE toLowerCase(phone) \in AnonymousSentinels

\* phone.replace(/\D/g, '')
RECURSIVE stripNonDigits(_)
stripNonDigits(str) ==
    IF str = << >> THEN << >>
    ELSE IF Head(str) \in DigitChars
         THEN <<Head(str)>> \o stripNonDigits(Tail(str))
         ELSE stripNonDigits(Tail(str))

startsWith(str, c) == Len(str) > 0 /\ str[1] = c

DEFAULT_COUNTRY_CODE == <<"+", "1">>

\* a normalization that puts the default country code before every number
normalizePhoneNumberAlwaysPrefixed(phone) ==
    IF isAnonymousCaller(phone) THEN NULL
    ELSE LET cleaned == stripNonDigits(phone)
         IN IF Len(cleaned) < 10 THEN NULL
            ELSE DEFAULT_COUNTRY_CODE \o cleaned

\* a normalization that accepts seven digits
normalizePhoneNumberSevenDigits(phone) ==
    IF isAnonymousCaller(phone) THEN NULL
    ELSE LET cleaned == stripNonDigits(phone)
         IN IF Len(cleaned) < 7 THEN NULL
            ELSE IF ~startsWith(phone, "+") /\ Len(cleaned) = 11
                        /\ startsWith(cleaned, "1")
                 THEN <<"+">> \o cleaned
            ELSE IF ~startsWith(phone, "+")
                 THEN DEFAULT_COUNTRY_CODE \o cleaned
            ELSE <<"+">> \o cleaned

normalizePhoneNumber(phone) ==
    IF isAnonymousCaller(phone) THEN NULL
    ELSE LET cleaned == stripNonDigits(phone)
         IN IF Len(cleaned) < 10 THEN NULL
            ELSE IF ~startsWith(phone, "+") /\ Len(cleaned) = 11
                        /\ startsWith(cleaned, "1")
                 THEN <<"+">> \o cleaned
            ELSE IF ~startsWith(phone, "+")
                 THEN DEFAULT_COUNTRY_CODE
                        \o (IF startsWith(cleaned, "1") /\ Len(cleaned) = 11
                            THEN Tail(cleaned) ELSE cleaned)
            ELSE <<"+">> \o cleaned

\* `a || b` on phone strings
orElse(a, b) == IF a = NULL THEN b ELSE a

\* ------------------------------------------------------------------------
\* Values
\* ------------------------------------------------------------------------
Statuses == {"scheduled", "confirmed", "cancelled", "completed", "no_show",
             "rescheduled"}
ActiveStatuses == {"scheduled", "confirmed"}

\* an absent (undefined) optional field
NoValue == -1
NoString == "undefined"
NoId == 0
NoFault == "none"

\* what a service call returns or throws
Result(kind, msg, from, to, conflicts, id) ==
    [kind |-> kind, msg |-> msg, from |-> from, to |-> to,
     conflicts |-> conflicts, id |-> id]
Ok(id) == Result("ok", "-", "-", "-", {}, id)
Err(kind, msg) == Result(kind, msg, "-", "-", {}, NoId)
DatabaseError(msg) == Err("DatabaseError", msg)
NotFoundError(id) == Result("NotFoundError", "Appointment", "-", "-", {}, id)
IsError(res) == res.kind # "ok"

\* ------------------------------------------------------------------------
\* Appointment repository (appointment.repository)
\* ------------------------------------------------------------------------
Ids(appts) == DOMAIN appts

\* the row create() inserts
createRow(input, userId) ==
    LET startTimeUtc == localToUtc(input.appointmentDate, input.appointmentTime)
        durationMinutes ==
            IF input.durationMinutes = NoValue \/ input.durationMinutes = 0
            THEN APPOINTMENT_DURATION_MINUTES
            ELSE input.durationMinutes
        endTimeUtc == calculateEndTime(startTimeUtc, durationMinutes)
    IN [user_id |-> userId,
        patient_phone |-> input.patientPhone,
        appointment_date |-> input.appointmentDate,
        appointment_time |-> timeColumn(input.appointmentTime),
        start_time_utc |-> startTimeUtc,
        end_time_utc |-> endTimeUtc,
        duration_minutes |-> durationMinutes,
        status |-> "scheduled",
        notes |-> NoString]

\* the updateData update() builds from the row it read: the fields absent
\* from `updates` stay out of it
updateData(existing, updates) ==
    LET newDate == IF updates.appointmentDate # NoValue
                   THEN updates.appointmentDate ELSE existing.appointment_date
        newTime == IF updates.appointmentTime # NoValue
                   THEN updates.appointmentTime ELSE existing.appointment_time
        startTimeUtc == localToUtc(newDate, newTime)
        endTimeUtc == calculateEndTime(startTimeUtc, existing.duration_minutes)
    IN [moved |-> updates.appointmentDate # NoValue
                      \/ updates.appointmentTime # NoValue,
        appointment_date |-> newDate,
        appointment_time |-> newTime,
        start_time_utc |-> startTimeUtc,
        end_time_utc |-> endTimeUtc,
        status |-> updates.status,
        notes |-> updates.notes]

\* UPDATE appointments SET <updateData> WHERE id = ...: applied to the row as
\* it is stored when the statement runs
\* an UPDATE that leaves end_time_utc out of a move
applyUpdateStartOnly(row, data) ==
    LET r1 == IF data.moved
              THEN [row EXCEPT !.appointment_date = data.appointment_date,
                               !.appointment_time = timeColumn(data.appointment_time),
                               !.start_time_utc = data.start_time_utc]
              ELSE row
        r2 == IF data.status # NoString
              THEN [r1 EXCEPT !.status = data.status] ELSE r1
    IN IF data.notes # NoString THEN [r2 EXCEPT !.notes = data.notes] ELSE r2

applyUpdate(row, data) ==
    LET r1 == IF data.moved
              THEN [row EXCEPT !.appointment_date = data.appointment_date,
                               !.appointment_time = timeColumn(data.appointment_time),
                               !.start_time_utc = data.start_time_utc,
                               !.end_time_utc = data.end_time_utc]
              ELSE row
        r2 == IF data.status # NoString
              THEN [r1 EXCEPT !.status = data.status] ELSE r1
    IN IF data.notes # NoString THEN [r2 EXCEPT !.notes = data.notes] ELSE r2

\* the row after update() when nothing else writes in between
updateRow(existing, updates) == applyUpdate(existing, updateData(existing, updates))

\* the row after cancel(): an empty or absent reason leaves the notes alone
cancelRow(existing, reason) ==
    LET r1 == [existing EXCEPT !.status = "cancelled"]
    IN IF reason # NoString /\ reason # "" THEN [r1 EXCEPT !.notes = reason] ELSE r1

\* INSERT INTO appointments with an exclusion constraint on the intervals of
\* the scheduled and confirmed rows
insertAppointmentExclusive(appts, input, userId, fault) ==
    LET row == createRow(input, userId)
    IN IF \/ fault = "insertAppointment"
          \/ \E id \in Ids(appts) :
                /\ appts[id].status \in ActiveStatuses
                /\ appts[id].start_time_utc < row.end_time_utc
                /\ row.start_time_utc < appts[id].end_time_utc
       THEN [appointments |-> appts, id |-> NoId,
             res |-> DatabaseError("Failed to create appointment")]
       ELSE [appointments |-> Append(appts, row), id |-> Len(appts) + 1,
             res |-> Ok(Len(appts) + 1)]

\* create(): INSERT INTO appointments; the table has a primary key and a
\* status check and nothing that compares a row's interval with another's
insertAppointment(appts, input, userId, fault) ==
    IF fault = "insertAppointment"
    THEN [appointments |-> appts, id |-> NoId,
          res |-> DatabaseError("Failed to create appointment")]
    ELSE [appointments |-> Append(appts, createRow(input, userId)),
          id |-> Len(appts) + 1,
          res |-> Ok(Len(appts) + 1)]

\* status in (scheduled, confirmed) and start <= endTimeUtc and end >= startTimeUtc
findConflicts(appts, startTimeUtc, endTimeUtc, excludeAppointmentId) ==
    { id \in Ids(appts) :
        /\ appts[id].status \in ActiveStatuses
        /\ appts[id].start_time_utc <= endTimeUtc
        /\ appts[id].end_time_utc >= startTimeUtc
        /\ (excludeAppointmentId # NoId => id # excludeAppointmentId) }

\* the rows list(filters) selects before paging: userId, status set,
\* dateFrom/dateTo (absent: NoId, {}, NoValue)
listMatches(appts, userId, statuses, dateFrom, dateTo) ==
    { id \in Ids(appts) :
        /\ (userId # NoId => appts[id].user_id = userId)
        /\ (statuses # {} => appts[id].status \in statuses)
        /\ (dateFrom # NoValue => appts[id].appointment_date >= dateFrom)
        /\ (dateTo # NoValue => appts[id].appointment_date <= dateTo) }

\* the subsets of S with k elements
RECURSIVE kSubsets(_, _)
kSubsets(S, k) ==
    IF k = 0 THEN {{}}
    ELSE UNION { { D \cup {x} : D \in kSubsets(S \ {x}, k - 1) } : x \in S }

\* list(filters): the first page (filters.limit || 20 rows from offset 0) of
\* the selected rows in ascending appointment_date.  The order of rows with
\* equal dates is the database's choice, so the value is the set of the pages
\* the query can return.
list(appts, userId, statuses, dateFrom, dateTo) ==
    LET matches == listMatches(appts, userId, statuses, dateFrom, dateTo)
    IN IF Cardinality(matches) <= LIST_LIMIT
       THEN {matches}
       ELSE { matches \ dropped :
                dropped \in { D \in kSubsets(matches, Cardinality(matches) - LIST_LIMIT) :
                                \A d \in D, p \in matches \ D :
                                    appts[p].appointment_date
                                        <= appts[d].appointment_date } }

\* ------------------------------------------------------------------------
\* User repository (user.repository) over the users table of the schema:
\* phone_number VARCHAR(20) UNIQUE NOT NULL
\* ------------------------------------------------------------------------
UserIds(usrs) == DOMAIN usrs

userRow(phone, clock) ==
    [phone_number |-> phone, total_appointments |-> 0, last_call_at |-> NoValue]

\* the insert into users: [users, id, error]
insertUser(usrs, row, fault) ==
    IF \/ fault = "insertUser"
       \/ row.phone_number = NULL
       \/ \E u \in UserIds(usrs) : usrs[u].phone_number = row.phone_number
    THEN [users |-> usrs, id |-> NoId, error |-> TRUE]
    ELSE [users |-> Append(usrs, row), id |-> Len(usrs) + 1, error |-> FALSE]

createAnonymousUser(usrs, clock, fault) ==
    LET r == insertUser(usrs, userRow(NULL, clock), fault)
    IN IF r.error
       THEN [users |-> usrs, id |-> NoId,
             res |-> DatabaseError("Failed to create anonymous user")]
       ELSE [users |-> r.users, id |-> r.id, res |-> Ok(NoId)]

\* findByPhone: the id of the row with this phone, NoId when there is none
findByPhone(usrs, phoneNumber) ==
    LET normalizedPhone == normalizePhoneNumber(phoneNumber)
    IN IF \E u \in UserIds(usrs) : usrs[u].phone_number = normalizedPhone
       THEN CHOOSE u \in UserIds(usrs) : usrs[u].phone_number = normalizedPhone
       ELSE NoId

\* updateLastCall never throws
updateLastCall(usrs, userId, clock, fault) ==
    IF fault = "updateLastCall" THEN usrs
    ELSE [usrs EXCEPT ![userId].last_call_at = clock]

\* a counter that counts every booking twice
incrementAppointmentCountTwice(usrs, userId, fault) ==
    IF fault = "incrementAppointmentCount" \/ userId \notin UserIds(usrs) THEN usrs
    ELSE [usrs EXCEPT ![userId].total_appointments = @ + 2]

\* incrementAppointmentCount never throws
incrementAppointmentCount(usrs, userId, fault) ==
    IF fault = "incrementAppointmentCount" \/ userId \notin UserIds(usrs) THEN usrs
    ELSE [usrs EXCEPT ![userId].total_appointments = @ + 1]

\* findOrCreate: [users, id, res]
findOrCreate(usrs, phoneNumber, clock, fault) ==
    LET normalizedPhone == normalizePhoneNumber(phoneNumber)
    IN IF normalizedPhone = NULL THEN createAnonymousUser(usrs, clock, fault)
       ELSE IF fault = "findByPhone"
            THEN [users |-> usrs, id |-> NoId,
                  res |-> DatabaseError("Failed to find user")]
       ELSE LET existingUser == findByPhone(usrs, normalizedPhone)
            IN IF existingUser # NoId
               THEN [users |-> updateLastCall(usrs, existingUser, clock, fault),
                     id |-> existingUser, res |-> Ok(NoId)]
               ELSE LET r == insertUser(usrs, userRow(normalizedPhone, clock), fault)
                    IN IF r.error
                       THEN [users |-> usrs, id |-> NoId,
                             res |-> DatabaseError("Failed to create user")]
                       ELSE [users |-> r.users, id |-> r.id, res |-> Ok(NoId)]

\* ------------------------------------------------------------------------
\* Appointment service (appointment.service): the rules
\* ------------------------------------------------------------------------
validTransitions(currentStatus) ==
    CASE currentStatus = "scheduled" -> {"confirmed", "cancelled", "rescheduled"}
      [] currentStatus = "confirmed" ->
            {"completed", "cancelled", "no_show", "rescheduled"}
      [] currentStatus = "cancelled" -> {}
      [] currentStatus = "completed" -> {}
      [] currentStatus = "no_show" -> {"rescheduled"}
      [] currentStatus = "rescheduled" -> {"scheduled"}
      [] OTHER -> {}

validateStatusTransitionLax(currentStatus, newStatus) ==
    IF newStatus = NoString \/ newStatus = currentStatus THEN Ok(NoId)
    ELSE IF newStatus \notin validTransitions(currentStatus)
         THEN Result("BusinessRuleError", "Invalid status transition",
                     currentStatus, newStatus, {}, NoId)
         ELSE Ok(NoId)

\* Ok, or the BusinessRuleError naming both states
validateStatusTransition(currentStatus, newStatus) ==
    IF newStatus = NoString THEN Ok(NoId)
    ELSE IF newStatus \notin validTransitions(currentStatus)
         THEN Result("BusinessRuleError", "Invalid status transition",
                     currentStatus, newStatus, {}, NoId)
         ELSE Ok(NoId)

\* isPastDateTime throws for a time text that does not parse
validateAppointmentTime(date, time, clock) ==
    IF ~parseValid(time)
    THEN Err("RangeError", "Invalid time value")
    ELSE IF isPastDateTime(date, time, clock)
    THEN Err("BusinessRuleError", "Cannot schedule appointment in the past")
    ELSE IF ~isWithinBusinessHours(date, time)
         THEN Err("BusinessRuleError",
                  "Appointments must be scheduled during business hours")
         ELSE Ok(NoId)

\* the window checkConflicts hands to findConflicts
bufferedStart(date, time) ==
    addMinutes(localToUtc(date, time), -APPOINTMENT_BUFFER_MINUTES)
bufferedEnd(date, time) ==
    addMinutes(calculateEndTime(localToUtc(date, time), APPOINTMENT_DURATION_MINUTES),
               APPOINTMENT_BUFFER_MINUTES)

checkConflicts(appts, date, time, excludeAppointmentId, fault) ==
    IF fault = "findConflicts"
    THEN DatabaseError("Failed to check appointment conflicts")
    ELSE LET conflicts == findConflicts(appts, bufferedStart(date, time),
                                        bufferedEnd(date, time), excludeAppointmentId)
         IN IF Cardinality(conflicts) > 0
            THEN Result("ConflictError", "Time slot conflicts with existing appointment(s)",
                        "-", "-", conflicts, NoId)
            ELSE Ok(NoId)

\* ------------------------------------------------------------------------
\* Appointment service: the operations.  Each yields the tables after the
\* call and what the call returns or throws; `fault` names the storage
\* operation that fails during the call (NoFault: none does).
\* ------------------------------------------------------------------------
Outcome(appts, usrs, res) == [appointments |-> appts, users |-> usrs, res |-> res]

\* a booking that goes on when the conflict query fails
createAppointmentCarryingOn(appts, usrs, clock, input, phoneNumber, fault) ==
    LET normalizedPhone == orElse(normalizePhoneNumber(phoneNumber), phoneNumber)
        u == findOrCreate(usrs, normalizedPhone, clock, fault)
        v == validateAppointmentTime(input.appointmentDate, input.appointmentTime, clock)
        c == checkConflicts(appts, input.appointmentDate, input.appointmentTime,
                            NoId, fault)
    IN IF IsError(u.res) THEN Outcome(appts, u.users, u.res)
       ELSE IF IsError(v) THEN Outcome(appts, u.users, v)
       ELSE IF IsError(c) /\ c.kind # "DatabaseError" THEN Outcome(appts, u.users, c)
       ELSE LET a == insertAppointment(appts, input, u.id, fault)
            IN IF IsError(a.res) THEN Outcome(appts, u.users, a.res)
               ELSE Outcome(a.appointments,
                            incrementAppointmentCount(u.users, u.id, fault),
                            a.res)

createAppointment(appts, usrs, clock, input, phoneNumber, fault) ==
    LET normalizedPhone == orElse(normalizePhoneNumber(phoneNumber), phoneNumber)
        normalizedPatientPhone == normalizePhoneNumber(input.patientPhone)
        input2 == IF normalizedPatientPhone # NULL
                  THEN [input EXCEPT !.patientPhone = normalizedPatientPhone]
                  ELSE input
        u == findOrCreate(usrs, normalizedPhone, clock, fault)
        v == validateAppointmentTime(input.appointmentDate, input.appointmentTime, clock)
        c == checkConflicts(appts, input.appointmentDate, input.appointmentTime,
                            NoId, fault)
    IN IF IsError(u.res) THEN Outcome(appts, u.users, u.res)
       ELSE IF IsError(v) THEN Outcome(appts, u.users, v)
       ELSE IF IsError(c) THEN Outcome(appts, u.users, c)
       ELSE LET a == insertAppointment(appts, input2, u.id, fault)
            IN IF IsError(a.res) THEN Outcome(appts, u.users, a.res)
               ELSE Outcome(a.appointments,
                            incrementAppointmentCount(u.users, u.id, fault),
                            a.res)

updateAppointment(appts, usrs, clock, appointmentId, updates, fault) ==
    IF fault = "findById"
    THEN Outcome(appts, usrs, DatabaseError("Failed to find appointment"))
    ELSE IF appointmentId \notin Ids(appts)
    THEN Outcome(appts, usrs, NotFoundError(appointmentId))
    ELSE
    LET existingAppointment == appts[appointmentId]
        t == validateStatusTransition(existingAppointment.status, updates.status)
        moved == updates.appointmentDate # NoValue \/ updates.appointmentTime # NoValue
        newDate == IF updates.appointmentDate # NoValue
                   THEN updates.appointmentDate
                   ELSE existingAppointment.appointment_date
        newTime == IF updates.appointmentTime # NoValue
                   THEN updates.appointmentTime
                   ELSE existingAppointment.appointment_time
        v == validateAppointmentTime(newDate, newTime, clock)
        c == checkConflicts(appts, newDate, newTime, appointmentId, fault)
    IN IF IsError(t) THEN Outcome(appts, usrs, t)
       ELSE IF moved /\ IsError(v) THEN Outcome(appts, usrs, v)
       ELSE IF moved /\ IsError(c) THEN Outcome(appts, usrs, c)
       ELSE IF fault = "update"
            THEN Outcome(appts, usrs, DatabaseError("Failed to update appointment"))
       ELSE Outcome([appts EXCEPT ![appointmentId] =
                        updateRow(existingAppointment, updates)],
                    usrs, Ok(appointmentId))

cancelAppointmentUnguarded(appts, usrs, appointmentId, reason, fault) ==
    IF fault = "findById"
    THEN Outcome(appts, usrs, DatabaseError("Failed to find appointment"))
    ELSE IF appointmentId \notin Ids(appts)
    THEN Outcome(appts, usrs, NotFoundError(appointmentId))
    ELSE IF fault = "cancel"
    THEN Outcome(appts, usrs, DatabaseError("Failed to cancel appointment"))
    ELSE Outcome([appts EXCEPT ![appointmentId] = cancelRow(appts[appointmentId], reason)],
                 usrs, Ok(appointmentId))

\* a cancellation that removes the row
cancelAppointmentDeleting(appts, usrs, appointmentId, reason, fault) ==
    IF appointmentId \notin Ids(appts)
    THEN Outcome(appts, usrs, NotFoundError(appointmentId))
    ELSE Outcome([i \in 1..(Len(appts) - 1) |->
                     IF i < appointmentId THEN appts[i] ELSE appts[i + 1]],
                 usrs, Ok(appointmentId))

cancelAppointment(appts, usrs, appointmentId, reason, fault) ==
    IF fault = "findById"
    THEN Outcome(appts, usrs, DatabaseError("Failed to find appointment"))
    ELSE IF appointmentId \notin Ids(appts)
    THEN Outcome(appts, usrs, NotFoundError(appointmentId))
    ELSE IF appts[appointmentId].status = "cancelled"
    THEN Outcome(appts, usrs,
                 Err("BusinessRuleError", "Appointment is already cancelled"))
    ELSE IF appts[appointmentId].status = "completed"
    THEN Outcome(appts, usrs,
                 Err("BusinessRuleError", "Cannot cancel completed appointment"))
    ELSE IF fault = "cancel"
    THEN Outcome(appts, usrs, DatabaseError("Failed to cancel appointment"))
    ELSE Outcome([appts EXCEPT ![appointmentId] = cancelRow(appts[appointmentId], reason)],
                 usrs, Ok(appointmentId))

\* getAvailableSlots: the candidate start times of the day, in the order the
\* loop visits them (opening, opening + 15, ... while candidate + duration
\* <= closing)
RECURSIVE slotLoop(_, _, _, _, _)
slotLoop(appts, booked, date, clock, args) ==
    IF args.currentMinutes + args.durationMinutes > businessHoursEnd
    THEN args.slots
    ELSE LET slotStart == localToUtc(date, args.currentMinutes)
             slotEnd == calculateEndTime(slotStart, args.durationMinutes)
             hasConflict ==
                 \E apt \in booked :
                     hasTimeConflict(slotStart, slotEnd,
                                     appts[apt].start_time_utc,
                                     appts[apt].end_time_utc,
                                     APPOINTMENT_BUFFER_MINUTES)
             keep == ~hasConflict /\ ~isPastDateTime(date, args.currentMinutes, clock)
         IN slotLoop(appts, booked, date, clock,
                [args EXCEPT !.currentMinutes = @ + SLOT_STEP_MINUTES,
                             !.slots = IF keep
                                       THEN Append(@, args.currentMinutes)
                                       ELSE @])

getAvailableSlots(appts, date, durationMinutes, clock, fault) ==
    IF isPastDateTime(date, 0, clock)
    THEN { [res |-> Err("ValidationError", "Cannot get slots for past dates"),
            slots |-> << >>] }
    ELSE IF fault = "list"
    THEN { [res |-> DatabaseError("Failed to list appointments"), slots |-> << >>] }
    ELSE { [res |-> Ok(NoId),
            slots |-> slotLoop(appts, booked, date, clock,
                               [currentMinutes |-> businessHoursStart,
                                durationMinutes |-> durationMinutes,
                                slots |-> << >>])] :
             booked \in list(appts, NoId, ActiveStatuses, date, date) }

\* ------------------------------------------------------------------------
\* State
\* ------------------------------------------------------------------------
VARIABLES
    appointments,   \* the appointments table: row id -> row
    users,          \* the users table: row id -> row
    now,            \* the wall clock (new Date()), minutes since the epoch
    last,           \* the service call executed last: arguments and outcome
    tasks,          \* the service calls in flight: each one's position and locals
    response,       \* the answer to the web request handled last
    callLogs,       \* the call_logs table: row id -> row
    cache,          \* the cache store: the entries set and their time to live
    redisState      \* the cache client module: its singleton, flag and clients

vars == <<appointments, users, now, last, tasks, response, callLogs, cache,
         redisState>>

\* ------------------------------------------------------------------------
\* The inputs explored.  Dates are day numbers: 0 is Thursday 1970-01-01,
\* 1 the Friday after it, 2 a Saturday (closed).
\* ------------------------------------------------------------------------
Dates == {0, 1, 2}
Durations == {NoValue, 60}
CallerPhone == <<"8", "1", "8", "5", "5", "5", "1", "2", "3", "4">>
RestrictedPhone == <<"r", "e", "s", "t", "r", "i", "c", "t", "e", "d">>
Phones == {CallerPhone, RestrictedPhone}
Reasons == {NoString, "", "moved away"}
ClockValues == <<localToUtc(1, 8 * 60), localToUtc(1, 14 * 60 + 20)>>

NoInput ==
    [patientPhone |-> NULL, appointmentDate |-> NoValue,
     appointmentTime |-> NoValue, durationMinutes |-> NoValue]
NoUpdates ==
    [appointmentDate |-> NoValue, appointmentTime |-> NoValue,
     status |-> NoString, notes |-> NoString]

NoResponse ==
    [endpoint |-> "none", status |-> NoValue, success |-> "absent",
     error |-> "-", cause |-> "none", twiml |-> "-"]

TaskIds == {1, 2}
NoRow == createRow(NoInput, NoId)
IdleTask ==
    [op |-> "none", pc |-> "idle", input |-> NoInput, phone |-> NULL,
     id |-> NoId, updates |-> NoUpdates, reason |-> NoString,
     userId |-> NoId, existing |-> NoRow, checkedAt |-> NoValue, res |-> Ok(NoId)]

Call(op, input, phone, id, updates, reason, fault, out, slots) ==
    [op |-> op, input |-> input, phone |-> phone, id |-> id,
     updates |-> updates, reason |-> reason, fault |-> fault,
     res |-> out.res, slots |-> slots,
     before |-> appointments, usersBefore |-> users, clock |-> now]

\* a call of a function or a handler with arguments of its own, and its value
Applied(op, args, value) ==
    [op |-> op, args |-> args, value |-> value, clock |-> now]

\* The cache client module (config/redis): the module variables redisClient
\* and isConnected, every client created so far with the state of its
\* connection, the calls of getRedisClient in flight and the call of
\* closeRedis in flight (the client whose quit() it awaits, NoId: none).
RedisCalls == {1, 2}
IdleRedisCall == [pc |-> "idle", client |-> NoId, res |-> NoId, failed |-> FALSE]
NoRedis ==
    [redisClient |-> NoId, isConnected |-> FALSE, clients |-> << >>,
     calls |-> [k \in RedisCalls |-> IdleRedisCall], closing |-> NoId]

Init ==
    /\ appointments = << >>
    /\ users = << >>
    /\ now = ClockValues[1]
    /\ last = [op |-> "none", input |-> NoInput, phone |-> NULL, id |-> NoId,
               updates |-> NoUpdates, reason |-> NoString, fault |-> NoFault,
               res |-> Ok(NoId), slots |-> << >>,
               before |-> << >>, usersBefore |-> << >>, clock |-> ClockValues[1]]
    /\ tasks = [t \in TaskIds |-> IdleTask]
    /\ response = NoResponse
    /\ callLogs = << >>
    /\ cache = {}
    /\ redisState = NoRedis

\* ------------------------------------------------------------------------
\* Service calls executed one at a time
\* ------------------------------------------------------------------------
CreateAppointment(input, phoneNumber, fault) ==
    /\ Len(appointments) < MaxAppointments
    /\ LET out == createAppointment(appointments, users, now, input, phoneNumber, fault)
       IN /\ appointments' = out.appointments
          /\ users' = out.users
          /\ last' = Call("createAppointment", input, phoneNumber, NoId, NoUpdates,
                          NoString, fault, out, << >>)
    /\ UNCHANGED <<now, tasks, response, callLogs, cache, redisState>>

UpdateAppointment(appointmentId, updates, fault) ==
    /\ LET out == updateAppointment(appointments, users, now, appointmentId,
                                    updates, fault)
       IN /\ appointments' = out.appointments
          /\ users' = out.users
          /\ last' = Call("updateAppointment", NoInput, NULL, appointmentId, updates,
                          NoString, fault, out, << >>)
    /\ UNCHANGED <<now, tasks, response, callLogs, cache, redisState>>

CancelAppointment(appointmentId, reason, fault) ==
    /\ LET out == cancelAppointment(appointments, users, appointmentId, reason, fault)
       IN /\ appointments' = out.appointments
          /\ users' = out.users
          /\ last' = Call("cancelAppointment", NoInput, NULL, appointmentId, NoUpdates,
                          reason, fault, out, << >>)
    /\ UNCHANGED <<now, tasks, response, callLogs, cache, redisState>>

GetAvailableSlots(date, durationMinutes, fault) ==
    /\ \E out \in getAvailableSlots(appointments, date, durationMinutes, now, fault) :
          last' = Call("getAvailableSlots",
                       [NoInput EXCEPT !.appointmentDate = date,
                                       !.durationMinutes = durationMinutes],
                       NULL, NoId, NoUpdates, NoString, fault, out, out.slots)
    /\ UNCHANGED <<appointments, users, now, tasks, response, callLogs, cache, redisState>>

\* time passes
Tick ==
    /\ \E i \in 1..(Len(ClockValues) - 1) :
          /\ now = ClockValues[i]
          /\ now' = ClockValues[i + 1]
    /\ UNCHANGED <<appointments, users, last, tasks, response, callLogs, cache, redisState>>

AppointmentIds == 1..(MaxAppointments + 1)
StatusUpdates(statuses) == {[NoUpdates EXCEPT !.status = st] : st \in statuses}
MoveUpdates(times) == {[NoUpdates EXCEPT !.appointmentTime = t] : t \in times}

\* Booking and conflict detection: bookings on the open Friday at 14:00,
\* 14:35 and 14:46, of the default or of an explicit duration, moved,
\* cancelled, marked rescheduled and restored.
ConflictInputs ==
    [patientPhone : {CallerPhone}, appointmentDate : {1},
     appointmentTime : {14 * 60, 14 * 60 + 35, 14 * 60 + 46},
     durationMinutes : Durations]

Next ==
    \/ \E input \in ConflictInputs : CreateAppointment(input, CallerPhone, NoFault)
    \/ \E id \in AppointmentIds,
          updates \in StatusUpdates({"confirmed", "rescheduled", "scheduled"})
                          \cup MoveUpdates({14 * 60, 14 * 60 + 46}) :
          UpdateAppointment(id, updates, NoFault)
    \/ \E id \in AppointmentIds : CancelAppointment(id, NoString, NoFault)

Spec == Init /\ [][Next]_vars

\* Validation of the requested time: bookings and slot queries for a past
\* day, the current day and a closed day, by a caller with and without a
\* usable number, while the clock advances.
ValidationInputs ==
    [patientPhone : {CallerPhone}, appointmentDate : Dates,
     appointmentTime : {14 * 60, 17 * 60 + 1},
     durationMinutes : {NoValue}]

NextValidation ==
    \/ \E input \in ValidationInputs, phoneNumber \in Phones :
          CreateAppointment(input, phoneNumber, NoFault)
    \/ \E id \in AppointmentIds : CancelAppointment(id, NoString, NoFault)
    \/ \E date \in Dates, durationMinutes \in {APPOINTMENT_DURATION_MINUTES, 60} :
          GetAvailableSlots(date, durationMinutes, NoFault)
    \/ Tick

SpecValidation == Init /\ [][NextValidation]_vars

\* Status changes: every requested status on every stored status, and
\* cancellations with and without a reason.
StatusInputs ==
    [patientPhone : {CallerPhone}, appointmentDate : {1},
     appointmentTime : {14 * 60}, durationMinutes : {NoValue}]

NextStatus ==
    \/ \E input \in StatusInputs : CreateAppointment(input, CallerPhone, NoFault)
    \/ \E id \in AppointmentIds, updates \in StatusUpdates(Statuses) \cup {NoUpdates} :
          UpdateAppointment(id, updates, NoFault)
    \/ \E id \in AppointmentIds, reason \in Reasons :
          CancelAppointment(id, reason, NoFault)

SpecStatus == Init /\ [][NextStatus]_vars

\* ------------------------------------------------------------------------
\* Service calls in flight together: a call runs up to its next storage
\* operation, which the store executes atomically, and any other call may
\* run in between.
\* ------------------------------------------------------------------------
Finish(task, res) == [task EXCEPT !.pc = "done", !.res = res]
Free(t) == tasks[t].pc \in {"idle", "done"}
CreatesInFlight ==
    Cardinality({t \in TaskIds : tasks[t].op = "createAppointment" /\ ~Free(t)})

StartCreate(t, input, phoneNumber) ==
    /\ Free(t)
    /\ Len(appointments) + CreatesInFlight < MaxAppointments
    /\ LET normalizedPhone == orElse(normalizePhoneNumber(phoneNumber), phoneNumber)
           normalizedPatientPhone == normalizePhoneNumber(input.patientPhone)
       IN tasks' = [tasks EXCEPT ![t] =
              [IdleTask EXCEPT
                  !.op = "createAppointment", !.pc = "findOrCreate",
                  !.phone = normalizedPhone,
                  !.input = IF normalizedPatientPhone # NULL
                            THEN [input EXCEPT !.patientPhone = normalizedPatientPhone]
                            ELSE input]]
    /\ UNCHANGED <<appointments, users, now, last, response, callLogs, cache, redisState>>

StartUpdate(t, appointmentId, updates) ==
    /\ Free(t)
    /\ tasks' = [tasks EXCEPT ![t] =
          [IdleTask EXCEPT !.op = "updateAppointment", !.pc = "findById",
                           !.id = appointmentId, !.updates = updates]]
    /\ UNCHANGED <<appointments, users, now, last, response, callLogs, cache, redisState>>

StartCancel(t, appointmentId, reason) ==
    /\ Free(t)
    /\ tasks' = [tasks EXCEPT ![t] =
          [IdleTask EXCEPT !.op = "cancelAppointment", !.pc = "findById",
                           !.id = appointmentId, !.reason = reason]]
    /\ UNCHANGED <<appointments, users, now, last, response, callLogs, cache, redisState>>

\* createAppointment after findOrCreate returned: validateAppointmentTime,
\* then on to the conflict query
AfterUser(task, userId) ==
    LET v == validateAppointmentTime(task.input.appointmentDate,
                                     task.input.appointmentTime, now)
    IN IF IsError(v) THEN Finish(task, v)
       ELSE [task EXCEPT !.pc = "findConflicts", !.userId = userId]

\* findOrCreate: the anonymous insert, or the lookup by phone
FindOrCreateStep(t) ==
    /\ tasks[t].pc = "findOrCreate"
    /\ IF normalizePhoneNumber(tasks[t].phone) = NULL
       THEN LET r == createAnonymousUser(users, now, NoFault)
            IN /\ users' = r.users
               /\ tasks' = [tasks EXCEPT ![t] =
                     IF IsError(r.res) THEN Finish(@, r.res) ELSE AfterUser(@, r.id)]
       ELSE LET existingUser == findByPhone(users, tasks[t].phone)
            IN /\ users' = users
               /\ tasks' = [tasks EXCEPT ![t] =
                     IF existingUser # NoId
                     THEN [@ EXCEPT !.pc = "updateLastCall", !.userId = existingUser]
                     ELSE [@ EXCEPT !.pc = "insertUser"]]
    /\ UNCHANGED <<appointments, now, last, response, callLogs, cache, redisState>>

UpdateLastCallStep(t) ==
    /\ tasks[t].pc = "updateLastCall"
    /\ users' = updateLastCall(users, tasks[t].userId, now, NoFault)
    /\ tasks' = [tasks EXCEPT ![t] = AfterUser(@, @.userId)]
    /\ UNCHANGED <<appointments, now, last, response, callLogs, cache, redisState>>

InsertUserStep(t) ==
    /\ tasks[t].pc = "insertUser"
    /\ LET r == insertUser(users, userRow(normalizePhoneNumber(tasks[t].phone), now),
                           NoFault)
       IN /\ users' = r.users
          /\ tasks' = [tasks EXCEPT ![t] =
                IF r.error THEN Finish(@, DatabaseError("Failed to create user"))
                ELSE AfterUser(@, r.id)]
    /\ UNCHANGED <<appointments, now, last, response, callLogs, cache, redisState>>

\* checkConflicts: the query, and the decision taken on its answer
FindConflictsStep(t) ==
    /\ tasks[t].pc = "findConflicts"
    /\ LET task == tasks[t]
           create == task.op = "createAppointment"
           data == updateData(task.existing, task.updates)
           c == IF create
                THEN checkConflicts(appointments, task.input.appointmentDate,
                                    task.input.appointmentTime, NoId, NoFault)
                ELSE checkConflicts(appointments, data.appointment_date,
                                    data.appointment_time, task.id, NoFault)
       IN tasks' = [tasks EXCEPT ![t] =
             IF IsError(c) THEN Finish(@, c)
             ELSE [@ EXCEPT !.pc = IF create THEN "insertAppointment"
                                   ELSE "updateFindById",
                            !.checkedAt = Len(appointments)]]
    /\ UNCHANGED <<appointments, users, now, last, response, callLogs, cache, redisState>>

InsertAppointmentStep(t) ==
    /\ tasks[t].pc = "insertAppointment"
    /\ LET a == insertAppointment(appointments, tasks[t].input, tasks[t].userId,
                                  NoFault)
       IN /\ appointments' = a.appointments
          /\ tasks' = [tasks EXCEPT ![t] =
                IF IsError(a.res) THEN Finish(@, a.res)
                ELSE [@ EXCEPT !.pc = "incrementAppointmentCount", !.id = a.id]]
    /\ UNCHANGED <<users, now, last, response, callLogs, cache, redisState>>

IncrementAppointmentCountStep(t) ==
    /\ tasks[t].pc = "incrementAppointmentCount"
    /\ users' = incrementAppointmentCount(users, tasks[t].userId, NoFault)
    /\ tasks' = [tasks EXCEPT ![t] = Finish(@, Ok(@.id))]
    /\ UNCHANGED <<appointments, now, last, response, callLogs, cache, redisState>>

\* updateAppointment after findById returned
AfterFindByIdUpdate(task, existingAppointment) ==
    LET tr == validateStatusTransition(existingAppointment.status, task.updates.status)
        data == updateData(existingAppointment, task.updates)
        v == validateAppointmentTime(data.appointment_date, data.appointment_time, now)
    IN IF IsError(tr) THEN Finish(task, tr)
       ELSE IF data.moved /\ IsError(v) THEN Finish(task, v)
       ELSE [task EXCEPT !.existing = existingAppointment,
                         !.pc = IF data.moved THEN "findConflicts" ELSE "update"]

\* cancelAppointment after findById returned
AfterFindByIdCancel(task, existingAppointment) ==
    IF existingAppointment.status = "cancelled"
    THEN Finish(task, Err("BusinessRuleError", "Appointment is already cancelled"))
    ELSE IF existingAppointment.status = "completed"
    THEN Finish(task, Err("BusinessRuleError", "Cannot cancel completed appointment"))
    ELSE [task EXCEPT !.existing = existingAppointment, !.pc = "cancel"]

FindByIdStep(t) ==
    /\ tasks[t].pc = "findById"
    /\ tasks' = [tasks EXCEPT ![t] =
          IF @.id \notin Ids(appointments) THEN Finish(@, NotFoundError(@.id))
          ELSE IF @.op = "updateAppointment"
               THEN AfterFindByIdUpdate(@, appointments[@.id])
               ELSE AfterFindByIdCancel(@, appointments[@.id])]
    /\ UNCHANGED <<appointments, users, now, last, response, callLogs, cache, redisState>>

\* update() reads the row again when the date or time changes
UpdateFindByIdStep(t) ==
    /\ tasks[t].pc = "updateFindById"
    /\ tasks' = [tasks EXCEPT ![t] =
          [@ EXCEPT !.existing = appointments[tasks[t].id], !.pc = "update"]]
    /\ UNCHANGED <<appointments, users, now, last, response, callLogs, cache, redisState>>

UpdateStep(t) ==
    /\ tasks[t].pc = "update"
    /\ appointments' = [appointments EXCEPT ![tasks[t].id] =
          applyUpdate(@, updateData(tasks[t].existing, tasks[t].updates))]
    /\ tasks' = [tasks EXCEPT ![t] = Finish(@, Ok(@.id))]
    /\ UNCHANGED <<users, now, last, response, callLogs, cache, redisState>>

CancelStep(t) ==
    /\ tasks[t].pc = "cancel"
    /\ appointments' = [appointments EXCEPT ![tasks[t].id] =
          cancelRow(@, tasks[t].reason)]
    /\ tasks' = [tasks EXCEPT ![t] = Finish(@, Ok(@.id))]
    /\ UNCHANGED <<users, now, last, response, callLogs, cache, redisState>>

RaceInputs ==
    [patientPhone : {CallerPhone}, appointmentDate : {1},
     appointmentTime : {14 * 60, 14 * 60 + 15}, durationMinutes : {NoValue}]

NextRace ==
    \E t \in TaskIds :
        \/ \E input \in RaceInputs : StartCreate(t, input, CallerPhone)
        \/ \E id \in Ids(appointments),
              updates \in StatusUpdates({"confirmed"})
                              \cup MoveUpdates({14 * 60 + 46}) :
              StartUpdate(t, id, updates)
        \/ \E id \in Ids(appointments) : StartCancel(t, id, "moved away")
        \/ FindOrCreateStep(t)
        \/ UpdateLastCallStep(t)
        \/ InsertUserStep(t)
        \/ FindConflictsStep(t)
        \/ InsertAppointmentStep(t)
        \/ IncrementAppointmentCountStep(t)
        \/ FindByIdStep(t)
        \/ UpdateFindByIdStep(t)
        \/ UpdateStep(t)
        \/ CancelStep(t)

SpecRace == Init /\ [][NextRace]_vars

\* ------------------------------------------------------------------------
\* Properties of the service calls executed one at a time
\* ------------------------------------------------------------------------
requestedDuration(input) ==
    IF input.durationMinutes = NoValue
    THEN APPOINTMENT_DURATION_MINUTES
    ELSE input.durationMinutes

\* the civil date of an instant in the business timezone
localDateOf(instant) == (instant - BUSINESS_TIMEZONE_OFFSET) \div MINUTES_PER_DAY

BufferedIntervalsOverlap(a, b) ==
    /\ a.start_time_utc - APPOINTMENT_BUFFER_MINUTES
          < b.end_time_utc + APPOINTMENT_BUFFER_MINUTES
    /\ b.start_time_utc - APPOINTMENT_BUFFER_MINUTES
          < a.end_time_utc + APPOINTMENT_BUFFER_MINUTES

\* C1: after any sequence of createAppointment, updateAppointment and
\* cancelAppointment calls executed one at a time, no two distinct
\* appointments that are not cancelled have overlapping buffered intervals
\* [start_time_utc - buffer, end_time_utc + buffer].
C1_NoBufferedOverlap ==
    \A i, j \in Ids(appointments) :
        (i # j /\ appointments[i].status # "cancelled"
               /\ appointments[j].status # "cancelled")
            => ~BufferedIntervalsOverlap(appointments[i], appointments[j])

\* two scheduled appointments stored for the very same interval
C1_DoubleBooked ==
    \E i, j \in Ids(appointments) :
        /\ i # j
        /\ appointments[i].status = "scheduled"
        /\ appointments[j].status = "scheduled"
        /\ appointments[i].start_time_utc = appointments[j].start_time_utc
        /\ appointments[i].end_time_utc = appointments[j].end_time_utc

\* the stored rows, not cancelled, whose [start, end] meets the requested
\* interval [start, start + duration] expanded by the buffer on both sides
RequestOverlaps(appts, input) ==
    LET start == localToUtc(input.appointmentDate, input.appointmentTime)
        end == start + requestedDuration(input)
    IN { id \in Ids(appts) :
           /\ appts[id].status # "cancelled"
           /\ appts[id].start_time_utc <= end + APPOINTMENT_BUFFER_MINUTES
           /\ appts[id].end_time_utc >= start - APPOINTMENT_BUFFER_MINUTES }

\* C3: a createAppointment for a future time inside business hours is
\* rejected with ConflictError exactly when some stored appointment that is
\* not cancelled overlaps the requested interval expanded by the buffer; the
\* error carries the ids of exactly those appointments and nothing is stored;
\* otherwise the appointment is stored at the requested time.
C3_ConflictIffOverlap ==
    (/\ last.op = "createAppointment"
     /\ ~isPastDateTime(last.input.appointmentDate, last.input.appointmentTime,
                        last.clock)
     /\ isWithinBusinessHours(last.input.appointmentDate, last.input.appointmentTime))
    => LET overlapping == RequestOverlaps(last.before, last.input)
       IN IF overlapping # {}
          THEN /\ last.res.kind = "ConflictError"
               /\ last.res.conflicts = overlapping
               /\ appointments = last.before
          ELSE /\ last.res.kind = "ok"
               /\ Len(appointments) = Len(last.before) + 1
               /\ appointments[last.res.id].appointment_time
                     = timeColumn(last.input.appointmentTime)

\* a 60-minute booking accepted although a scheduled appointment starts
\* within it
C3_AcceptedOverBooked ==
    /\ last.op = "createAppointment"
    /\ last.res.kind = "ok"
    /\ \E id \in Ids(last.before) :
          /\ last.before[id].status = "scheduled"
          /\ appointments[last.res.id].start_time_utc
                < last.before[id].start_time_utc
          /\ last.before[id].start_time_utc
                < appointments[last.res.id].end_time_utc

AllowedTransitions ==
    {<<"scheduled", "confirmed">>, <<"scheduled", "cancelled">>,
     <<"scheduled", "rescheduled">>, <<"confirmed", "completed">>,
     <<"confirmed", "cancelled">>, <<"confirmed", "no_show">>,
     <<"confirmed", "rescheduled">>, <<"no_show", "rescheduled">>,
     <<"rescheduled", "scheduled">>}

\* C4: updateAppointment(id, {status: to}) on a stored appointment of status
\* `from` succeeds and stores `to` when (from, to) is in the transition
\* table, and otherwise (to = from included) fails with a BusinessRuleError
\* naming both states and leaves the appointment unchanged.
C4_TransitionTable ==
    (/\ last.op = "updateAppointment"
     /\ last.id \in Ids(last.before)
     /\ last.updates.status # NoString
     /\ last.updates = [NoUpdates EXCEPT !.status = last.updates.status])
    => LET from == last.before[last.id].status
           to == last.updates.status
       IN IF <<from, to>> \in AllowedTransitions
          THEN /\ last.res.kind = "ok"
               /\ appointments = [last.before EXCEPT ![last.id].status = to]
          ELSE /\ last.res.kind = "BusinessRuleError"
               /\ last.res.from = from
               /\ last.res.to = to
               /\ appointments = last.before

\* a rescheduled appointment put back to scheduled
C4_Restored ==
    /\ last.op = "updateAppointment"
    /\ last.id \in Ids(last.before)
    /\ last.before[last.id].status = "rescheduled"
    /\ last.updates.status = "scheduled"
    /\ last.res.kind = "ok"
    /\ appointments[last.id].status = "scheduled"

\* C6: cancelAppointment on a cancelled or completed appointment fails with
\* BusinessRuleError and leaves the record unchanged; on a scheduled or
\* confirmed appointment it sets status cancelled and stores a given reason
\* in notes, so a second cancellation of the same id fails; on an absent id
\* it fails with NotFoundError.
C6_Cancel ==
    last.op = "cancelAppointment"
    => IF last.id \notin Ids(last.before)
       THEN last.res.kind = "NotFoundError" /\ appointments = last.before
       ELSE LET status == last.before[last.id].status
            IN /\ status \in {"cancelled", "completed"}
                  => /\ last.res.kind = "BusinessRuleError"
                     /\ appointments = last.before
               /\ status \in {"scheduled", "confirmed"}
                  => /\ last.res.kind = "ok"
                     /\ appointments =
                          [last.before EXCEPT
                              ![last.id].status = "cancelled",
                              ![last.id].notes =
                                  IF last.reason \in {NoString, ""}
                                  THEN @ ELSE last.reason]

\* the second cancellation of an appointment cancelled with a reason
C6_SecondCancel ==
    /\ last.op = "cancelAppointment"
    /\ last.id \in Ids(last.before)
    /\ last.before[last.id].status = "cancelled"
    /\ last.before[last.id].notes = "moved away"
    /\ last.res.kind = "BusinessRuleError"

\* C7: createAppointment for a time strictly before now fails with
\* BusinessRuleError, inside business hours or not, conflicting or not, and
\* stores no appointment.
C7_PastRejected ==
    (/\ last.op = "createAppointment"
     /\ isPastDateTime(last.input.appointmentDate, last.input.appointmentTime,
                       last.clock))
    => /\ last.res.kind = "BusinessRuleError"
       /\ appointments = last.before

\* a booking in the past by a caller without a usable number
C7_PastGetsDatabaseError ==
    /\ last.op = "createAppointment"
    /\ isPastDateTime(last.input.appointmentDate, last.input.appointmentTime,
                      last.clock)
    /\ normalizePhoneNumber(last.phone) = NULL
    /\ last.res.kind = "DatabaseError"

\* the candidate start times of a day for a duration
Candidates(durationMinutes) ==
    { t \in businessHoursStart..businessHoursEnd :
        /\ (t - businessHoursStart) % SLOT_STEP_MINUTES = 0
        /\ t + durationMinutes <= businessHoursEnd }

ExpectedSlots(appts, date, durationMinutes, clock) ==
    { t \in Candidates(durationMinutes) :
        /\ ~(localToUtc(date, t) < clock)
        /\ \A id \in Ids(appts) :
              (appts[id].status \in ActiveStatuses
                  /\ appts[id].appointment_date = date)
              => ~hasTimeConflict(localToUtc(date, t),
                                  localToUtc(date, t) + durationMinutes,
                                  appts[id].start_time_utc,
                                  appts[id].end_time_utc,
                                  APPOINTMENT_BUFFER_MINUTES) }

TodayWithFutureCandidates ==
    /\ last.op = "getAvailableSlots"
    /\ last.input.appointmentDate = localDateOf(last.clock)
    /\ getDay(last.input.appointmentDate) \in businessDays
    /\ \E t \in Candidates(last.input.durationMinutes) :
          ~(localToUtc(last.input.appointmentDate, t) < last.clock)

\* C10: getAvailableSlots for the current business date, while some
\* candidate start times are still in the future, does not fail and returns,
\* in ascending order, the candidates that are neither past nor conflicting.
C10_TodaySlots ==
    TodayWithFutureCandidates
    => /\ last.res.kind = "ok"
       /\ \A i, j \in DOMAIN last.slots : i < j => last.slots[i] < last.slots[j]
       /\ {last.slots[i] : i \in DOMAIN last.slots}
             = ExpectedSlots(last.before, last.input.appointmentDate,
                             last.input.durationMinutes, last.clock)

\* the slot query for today rejected as a query for a past date
C10_TodayRejected ==
    /\ TodayWithFutureCandidates
    /\ last.res.kind = "ValidationError"

\* ------------------------------------------------------------------------
\* Properties of the service calls in flight together
\* ------------------------------------------------------------------------

\* C2: a createAppointment that passed its conflict check is never rejected
\* by the insert, whatever was stored since the check: the row is stored as
\* scheduled at the requested time and the call returns success; so two
\* calls for overlapping slots that both pass the check before either
\* inserts both succeed and leave two overlapping scheduled appointments.
C2_InsertNeverRejected ==
    [][\A t \in TaskIds :
          /\ (tasks[t].pc = "insertAppointment" /\ tasks'[t] # tasks[t])
             => /\ tasks'[t].pc = "incrementAppointmentCount"
                /\ Len(appointments') = Len(appointments) + 1
                /\ tasks'[t].id = Len(appointments')
                /\ appointments'[Len(appointments')].status = "scheduled"
                /\ appointments'[Len(appointments')].appointment_time
                      = timeColumn(tasks[t].input.appointmentTime)
          /\ (tasks[t].pc = "incrementAppointmentCount" /\ tasks'[t] # tasks[t])
             => /\ tasks'[t].pc = "done"
                /\ tasks'[t].res = Ok(tasks[t].id)]_vars

\* both calls checked an empty calendar, both returned success, and their
\* two scheduled appointments overlap
C2_BothStored ==
    \E t1, t2 \in TaskIds :
        /\ t1 # t2
        /\ \A t \in {t1, t2} :
              /\ tasks[t].op = "createAppointment"
              /\ tasks[t].pc = "done"
              /\ tasks[t].res.kind = "ok"
              /\ tasks[t].checkedAt = 0
              /\ appointments[tasks[t].id].status = "scheduled"
        /\ tasks[t1].id # tasks[t2].id
        /\ appointments[tasks[t1].id].start_time_utc
              < appointments[tasks[t2].id].end_time_utc
        /\ appointments[tasks[t2].id].start_time_utc
              < appointments[tasks[t1].id].end_time_utc

\* C5: under any interleaving of updateAppointment and cancelAppointment
\* calls on the same appointment, once the stored status is cancelled or
\* completed it never changes again.
C5_TerminalStatusStays ==
    [][\A id \in Ids(appointments) :
          appointments[id].status \in {"cancelled", "completed"}
             => appointments'[id].status = appointments[id].status]_vars

\* a cancelled appointment (its notes hold the cancellation reason) that an
\* update which had read it as scheduled turned into confirmed
C5_CancelledOverwritten ==
    \E id \in Ids(appointments), t \in TaskIds :
        /\ appointments[id].status = "confirmed"
        /\ appointments[id].notes = "moved away"
        /\ tasks[t].op = "updateAppointment"
        /\ tasks[t].id = id
        /\ tasks[t].pc = "done"
        /\ tasks[t].res.kind = "ok"
        /\ tasks[t].existing.status = "scheduled"

\* ------------------------------------------------------------------------
\* Call log repository (call-log.repository) over the call_logs table:
\* call_sid UNIQUE NOT NULL, from_number NOT NULL
\* ------------------------------------------------------------------------
NoSid == "-"

\* create(): [callLogs, res]
callLogCreate(logs, callSid, userId, fromNumber, fault) ==
    IF \/ fault = "callLogCreate"
       \/ fromNumber = NULL
       \/ \E i \in DOMAIN logs : logs[i].call_sid = callSid
    THEN [callLogs |-> logs, res |-> DatabaseError("Failed to create call log")]
    ELSE [callLogs |-> Append(logs, [call_sid |-> callSid, user_id |-> userId,
                                     from_number |-> fromNumber,
                                     session_id |-> NoSid, status |-> "initiated",
                                     intent_type |-> NoString]),
          res |-> Ok(NoId)]

\* update(): never throws; `updates` maps the columns set to their values
callLogUpdate(logs, callSid, updates, fault) ==
    IF fault = "callLogUpdate" THEN logs
    ELSE [i \in DOMAIN logs |->
            IF logs[i].call_sid = callSid
            THEN [col \in DOMAIN logs[i] |->
                    IF col \in DOMAIN updates THEN updates[col] ELSE logs[i][col]]
            ELSE logs[i]]

markCompleted(logs, callSid, fault) ==
    callLogUpdate(logs, callSid, [status |-> "completed"], fault)
\* a handler that leaves the call log as it is after a failure
markFailedSkipped(logs, callSid, fault) == logs

markFailed(logs, callSid, fault) ==
    callLogUpdate(logs, callSid, [status |-> "failed"], fault)
updateIntent(logs, callSid, intentType, fault) ==
    callLogUpdate(logs, callSid, [intent_type |-> intentType], fault)

\* ------------------------------------------------------------------------
\* findUserAppointments: [res, ids]
\* ------------------------------------------------------------------------
\* a lookup that lists the appointments of every user
findUserAppointmentsAnyUser(appts, usrs, phoneNumber, statusFilter, fault) ==
    { [res |-> Ok(NoId), ids |-> page] :
        page \in list(appts, NoId, statusFilter, NoValue, NoValue) }

\* a lookup that ignores the status filter
findUserAppointmentsUnfiltered(appts, usrs, phoneNumber, statusFilter, fault) ==
    LET normalizedPhone == normalizePhoneNumber(phoneNumber)
        user == findByPhone(usrs, normalizedPhone)
    IN IF normalizedPhone = NULL \/ user = NoId
       THEN { [res |-> Ok(NoId), ids |-> {}] }
       ELSE { [res |-> Ok(NoId), ids |-> page] :
                page \in list(appts, user, {}, NoValue, NoValue) }

findUserAppointments(appts, usrs, phoneNumber, statusFilter, fault) ==
    LET normalizedPhone == normalizePhoneNumber(phoneNumber)
        user == findByPhone(usrs, normalizedPhone)
    IN IF normalizedPhone = NULL THEN { [res |-> Ok(NoId), ids |-> {}] }
       ELSE IF fault = "findByPhone"
            THEN { [res |-> DatabaseError("Failed to find user"), ids |-> {}] }
       ELSE IF user = NoId THEN { [res |-> Ok(NoId), ids |-> {}] }
       ELSE IF fault = "list"
            THEN { [res |-> DatabaseError("Failed to list appointments"), ids |-> {}] }
       ELSE { [res |-> Ok(NoId), ids |-> page] :
                page \in list(appts, user, statusFilter, NoValue, NoValue) }

\* ------------------------------------------------------------------------
\* The tool endpoints (webhook routes): validateBody(schema), then the
\* controller; what validateBody rejects goes to errorHandler.
\* ------------------------------------------------------------------------
ToolEndpoints ==
    {"appointment/create", "appointment/check", "appointment/edit",
     "appointment/cancel", "call/transfer", "call/end"}

\* z.string().min(n) on a field: present and at least n characters long
minString(value, n) == value # NoString /\ (n > 0 => value # "")
minChars(value, n) == Len(value) >= n
present(value) == value # NoValue

createAppointmentSchema(body) ==
    /\ minString(body.full_name, 1)
    /\ minChars(body.phone_number, 10)
    /\ present(body.preferred_date)
    /\ present(body.preferred_time)
checkAppointmentSchema(body) == minChars(body.phone_number, 10)
editAppointmentSchema(body) ==
    minChars(body.phone_number, 10) /\ present(body.original_date)
cancelAppointmentSchema(body) ==
    minChars(body.phone_number, 10) /\ present(body.appointment_date)
transferCallSchema(body) == minString(body.reason, 1)
endCallSchema(body) == minString(body.outcome, 1)

\* errorHandler on a ZodError: HTTP 400, {status: 'error', code: 'VALIDATION_ERROR'}
errorHandler(endpoint) ==
    [endpoint |-> endpoint, status |-> 400, success |-> "absent",
     error |-> "VALIDATION_ERROR", cause |-> "ZodError", twiml |-> "-"]

\* res.status(200).json({success: true, ...})
ToolSuccess(endpoint) ==
    [endpoint |-> endpoint, status |-> 200, success |-> "true",
     error |-> "-", cause |-> "none", twiml |-> "-"]

\* res.status(200).json({success: false, error: <code>, ...})
ToolFailure(endpoint, error, cause) ==
    [endpoint |-> endpoint, status |-> 200, success |-> "false",
     error |-> error, cause |-> cause, twiml |-> "-"]

ToolCreateAppointment(body, fault) ==
    /\ Len(appointments) < MaxAppointments
    /\ IF ~createAppointmentSchema(body)
       THEN /\ response' = errorHandler("appointment/create")
            /\ UNCHANGED <<appointments, users>>
       ELSE LET out == createAppointment(appointments, users, now,
                          [patientPhone |-> body.phone_number,
                           appointmentDate |-> body.preferred_date,
                           appointmentTime |-> body.preferred_time,
                           durationMinutes |-> NoValue],
                          body.phone_number, fault)
            IN /\ appointments' = out.appointments
               /\ users' = out.users
               /\ response' =
                     IF IsError(out.res)
                     THEN ToolFailure("appointment/create", "booking_failed",
                                      out.res.kind)
                     ELSE ToolSuccess("appointment/create")
    /\ UNCHANGED <<now, last, tasks, callLogs, cache, redisState>>

ToolCheckAppointment(body, fault) ==
    /\ IF ~checkAppointmentSchema(body)
       THEN response' = errorHandler("appointment/check")
       ELSE \E found \in findUserAppointments(appointments, users,
                               body.phone_number, ActiveStatuses, fault) :
               response' =
                  IF IsError(found.res)
                  THEN ToolFailure("appointment/check", "lookup_failed",
                                   found.res.kind)
                  ELSE ToolSuccess("appointment/check")
    /\ UNCHANGED <<appointments, users, now, last, tasks, callLogs, cache, redisState>>

ToolEditAppointment(body, fault) ==
    \E found \in findUserAppointments(appointments, users, body.phone_number,
                                      ActiveStatuses, fault) :
    LET matching == { id \in found.ids :
                        appointments[id].appointment_date = body.original_date }
    IN
    /\ IF ~editAppointmentSchema(body)
       THEN /\ response' = errorHandler("appointment/edit")
            /\ UNCHANGED <<appointments, users>>
       ELSE IF IsError(found.res)
       THEN /\ response' = ToolFailure("appointment/edit", "update_failed",
                                       found.res.kind)
            /\ UNCHANGED <<appointments, users>>
       ELSE IF matching = {}
       THEN /\ response' = ToolFailure("appointment/edit", "appointment_not_found",
                                       "no appointment")
            /\ UNCHANGED <<appointments, users>>
       ELSE \E appointment \in matching :
              LET out == updateAppointment(appointments, users, now, appointment,
                            [NoUpdates EXCEPT
                                !.appointmentDate =
                                    IF present(body.new_date)
                                    THEN body.new_date ELSE body.original_date,
                                !.appointmentTime =
                                    IF present(body.new_time)
                                    THEN body.new_time
                                    ELSE appointments[appointment].appointment_time],
                            fault)
              IN /\ appointments' = out.appointments
                 /\ users' = out.users
                 /\ response' =
                       IF IsError(out.res)
                       THEN ToolFailure("appointment/edit", "update_failed",
                                        out.res.kind)
                       ELSE ToolSuccess("appointment/edit")
    /\ UNCHANGED <<now, last, tasks, callLogs, cache, redisState>>

ToolCancelAppointment(body, fault) ==
    \E found \in findUserAppointments(appointments, users, body.phone_number,
                                      ActiveStatuses, fault) :
    LET matching == { id \in found.ids :
                        appointments[id].appointment_date = body.appointment_date }
    IN
    /\ IF ~cancelAppointmentSchema(body)
       THEN /\ response' = errorHandler("appointment/cancel")
            /\ UNCHANGED <<appointments, users>>
       ELSE IF IsError(found.res)
       THEN /\ response' = ToolFailure("appointment/cancel", "cancel_failed",
                                       found.res.kind)
            /\ UNCHANGED <<appointments, users>>
       ELSE IF matching = {}
       THEN /\ response' = ToolFailure("appointment/cancel",
                                       "appointment_not_found", "no appointment")
            /\ UNCHANGED <<appointments, users>>
       ELSE \E appointment \in matching :
              LET out == cancelAppointment(appointments, users, appointment,
                                           body.cancellation_reason, fault)
              IN /\ appointments' = out.appointments
                 /\ users' = out.users
                 /\ response' =
                       IF IsError(out.res)
                       THEN ToolFailure("appointment/cancel", "cancel_failed",
                                        out.res.kind)
                       ELSE ToolSuccess("appointment/cancel")
    /\ UNCHANGED <<now, last, tasks, callLogs, cache, redisState>>

ToolTransferCall(body, fault) ==
    /\ IF ~transferCallSchema(body)
       THEN /\ response' = errorHandler("call/transfer")
            /\ UNCHANGED callLogs
       ELSE /\ callLogs' = IF body.call_sid # NoSid
                           THEN updateIntent(callLogs, body.call_sid, "transfer", fault)
                           ELSE callLogs
            /\ response' = ToolSuccess("call/transfer")
    /\ UNCHANGED <<appointments, users, now, last, tasks, cache, redisState>>

ToolEndCall(body, fault) ==
    /\ IF ~endCallSchema(body)
       THEN /\ response' = errorHandler("call/end")
            /\ UNCHANGED callLogs
       ELSE /\ callLogs' =
                  IF body.call_sid # NoSid
                  THEN markCompleted(updateIntent(callLogs, body.call_sid,
                                                  "call_ended", fault),
                                     body.call_sid, fault)
                  ELSE callLogs
            /\ response' = ToolSuccess("call/end")
    /\ UNCHANGED <<appointments, users, now, last, tasks, cache, redisState>>

\* ------------------------------------------------------------------------
\* The inbound call (twilio.controller handleInboundCall)
\* ------------------------------------------------------------------------
SESSION_TTL_SECONDS == 3600

\* userService.verifyUser: [users, id, res]
verifyUser(usrs, phoneNumber, clock, fault) ==
    LET normalizedPhone == normalizePhoneNumber(phoneNumber)
        user == findByPhone(usrs, normalizedPhone)
    IN IF isAnonymousCaller(phoneNumber) THEN createAnonymousUser(usrs, clock, fault)
       ELSE IF normalizedPhone = NULL THEN createAnonymousUser(usrs, clock, fault)
       ELSE IF fault = "findByPhone"
            THEN [users |-> usrs, id |-> NoId,
                  res |-> DatabaseError("Failed to find user")]
       ELSE IF user = NoId THEN findOrCreate(usrs, normalizedPhone, clock, fault)
       ELSE [users |-> usrs, id |-> user, res |-> Ok(NoId)]

\* setCache with the cache store enabled and reachable ("up"), unreachable
\* ("down") or disabled by configuration ("disabled"): [cache, res]
\* An entry's ttl is the number of seconds it still has to live; NoValue:
\* the entry was set without expiry (client.set) and stays until deleted.
\* a cache write that never sets an expiry
setCacheNoExpiry(entries, key, value, ttlSeconds, redis) ==
    IF redis = "disabled"
    THEN [cache |-> entries, res |-> Err("Error", "Redis is disabled in configuration")]
    ELSE IF redis = "down"
    THEN [cache |-> entries, res |-> Err("Error", "Failed to set cache")]
    ELSE [cache |-> {e \in entries : e.key # key}
                       \cup {[key |-> key, value |-> value, ttl |-> NoValue]},
          res |-> Ok(NoId)]

\* a cache write that reports success when the store cannot be reached
setCacheSwallowing(entries, key, value, ttlSeconds, redis) ==
    IF redis # "up"
    THEN [cache |-> entries, res |-> Ok(NoId)]
    ELSE [cache |-> {e \in entries : e.key # key}
                       \cup {[key |-> key, value |-> value, ttl |-> ttlSeconds]},
          res |-> Ok(NoId)]

setCache(entries, key, value, ttlSeconds, redis) ==
    IF redis = "disabled"
    THEN [cache |-> entries, res |-> Err("Error", "Redis is disabled in configuration")]
    ELSE IF redis = "down"
    THEN [cache |-> entries, res |-> Err("Error", "Failed to set cache")]
    ELSE [cache |-> {e \in entries : e.key # key}
                       \cup {[key |-> key, value |-> value,
                              ttl |-> IF ttlSeconds > 0 THEN ttlSeconds
                                      ELSE NoValue]},
          res |-> Ok(NoId)]

\* the cache store after `seconds` have passed: entries set with setEx lose
\* that much of their time to live and are gone when none is left
expireEntries(entries, seconds) ==
    { [e EXCEPT !.ttl = IF @ = NoValue THEN NoValue ELSE @ - seconds] :
        e \in { x \in entries : x.ttl = NoValue \/ x.ttl > seconds } }

\* the TwiML sent: the connect-to-stream response or the error announcement
InboundResponse(twiml, cause) ==
    [endpoint |-> "twilio/inbound", status |-> 200, success |-> "absent",
     error |-> "-", cause |-> cause, twiml |-> twiml]

\* `session` tells whether the AI session starts ("ok") or the provider
\* fails ("fail"); the session started for a call is named after the call
HandleInboundCall(callSid, from, session, redis, fault) ==
    LET isAnonymous == isAnonymousCaller(from)
        u == verifyUser(users, from, now, fault)
        l == callLogCreate(callLogs, callSid, u.id,
                           IF isAnonymous THEN NULL ELSE from, fault)
        c == setCache(cache, callSid,
                      [callSid |-> callSid, userId |-> u.id,
                       phoneNumber |-> IF isAnonymous THEN NULL ELSE from,
                       isAnonymous |-> isAnonymous],
                      SESSION_TTL_SECONDS, redis)
    IN
    /\ IF IsError(u.res)
       THEN /\ users' = u.users
            /\ callLogs' = markFailed(callLogs, callSid, fault)
            /\ cache' = cache
            /\ response' = InboundResponse("error", "user")
       ELSE IF IsError(l.res)
       THEN /\ users' = u.users
            /\ callLogs' = markFailed(l.callLogs, callSid, fault)
            /\ cache' = cache
            /\ response' = InboundResponse("error", "callLog")
       ELSE IF session = "fail"
       THEN /\ users' = u.users
            /\ callLogs' = markFailed(l.callLogs, callSid, fault)
            /\ cache' = cache
            /\ response' = InboundResponse("error", "session")
       ELSE IF IsError(c.res)
       THEN /\ users' = u.users
            /\ callLogs' = markFailed(l.callLogs, callSid, fault)
            /\ cache' = cache
            /\ response' = InboundResponse("error", "cache")
       ELSE /\ users' = u.users
            /\ callLogs' = callLogUpdate(l.callLogs, callSid,
                              [session_id |-> callSid, status |-> "connected"],
                              fault)
            /\ cache' = c.cache
            /\ response' = InboundResponse("stream", "none")
    /\ last' = Applied("handleInboundCall",
                       [callSid |-> callSid, from |-> from, session |-> session,
                        redis |-> redis, fault |-> fault],
                       response'.twiml)
    /\ UNCHANGED <<appointments, now, tasks, redisState>>

\* ------------------------------------------------------------------------
\* The web requests explored
\* ------------------------------------------------------------------------
CallerE164 == normalizePhoneNumber(CallerPhone)
ShortPhone == <<"1", "2", "3", "4", "5">>
CallSids == {"CA1", "CA2"}

CreateBodies ==
    [full_name : {"Jane Doe", ""}, phone_number : {CallerPhone, ShortPhone},
     preferred_date : {0, 1}, preferred_time : {14 * 60}]
CheckBodies == [phone_number : {CallerPhone, ShortPhone}]
EditBodies ==
    [phone_number : {CallerPhone, ShortPhone}, original_date : {1, NoValue},
     new_date : {NoValue, 2}, new_time : {NoValue, 14 * 60 + 35}]
CancelBodies ==
    [phone_number : {CallerPhone, ShortPhone}, appointment_date : {1, NoValue},
     cancellation_reason : {"moved away"}]
TransferBodies == [reason : {"billing", ""}, call_sid : {"CA1", NoSid}]
EndBodies == [outcome : {"booked", ""}, call_sid : {"CA1", NoSid}]

\* The tool endpoints, called during a call that was connected
NextTools ==
    \/ \E body \in CreateBodies, fault \in {NoFault, "insertAppointment"} :
          ToolCreateAppointment(body, fault)
    \/ \E body \in CheckBodies, fault \in {NoFault, "list"} :
          ToolCheckAppointment(body, fault)
    \/ \E body \in EditBodies, fault \in {NoFault, "update"} :
          ToolEditAppointment(body, fault)
    \/ \E body \in CancelBodies, fault \in {NoFault, "cancel"} :
          ToolCancelAppointment(body, fault)
    \/ \E body \in TransferBodies, fault \in {NoFault, "callLogUpdate"} :
          ToolTransferCall(body, fault)
    \/ \E body \in EndBodies, fault \in {NoFault, "callLogUpdate"} :
          ToolEndCall(body, fault)
    \/ HandleInboundCall("CA1", CallerE164, "ok", "up", NoFault)

SpecTools == Init /\ [][NextTools]_vars

\* Inbound calls from a caller with a number and from callers without one,
\* with the AI provider and the cache store up or failing
NextInbound ==
    \E callSid \in CallSids, from \in {CallerE164, RestrictedPhone, NULL},
       session \in {"ok", "fail"}, redis \in {"up", "down", "disabled"},
       fault \in {NoFault, "findByPhone", "insertUser", "callLogCreate",
                  "callLogUpdate"} :
       /\ redis # "up" => (session = "ok" /\ fault = NoFault)
       /\ HandleInboundCall(callSid, from, session, redis, fault)

SpecInbound == Init /\ [][NextInbound]_vars

\* C8: a failing non-critical write does not change what the caller gets: an
\* inbound call whose user lookup, call-log creation and AI session start
\* all succeeded receives the connect-to-stream response, whether the cache
\* store is up, unreachable or disabled.
C8_CacheFailureHarmless ==
    (response.endpoint = "twilio/inbound"
        /\ response.cause \notin {"user", "callLog", "session"})
    => response.twiml = "stream"

\* the error announcement sent because the cache write failed
C8_CacheFailureAnnounced ==
    /\ response.endpoint = "twilio/inbound"
    /\ response.cause = "cache"
    /\ response.twiml = "error"
    /\ \E i \in DOMAIN callLogs : callLogs[i].status = "failed"

\* C9: each of the six tool endpoints answers every request with HTTP 200
\* and a body carrying success; every failure, a body failing schema
\* validation included, yields HTTP 200 with success false and an error code.
C9_AlwaysOkStatus ==
    response.endpoint \in ToolEndpoints
    => /\ response.status = 200
       /\ response.success \in {"true", "false"}
       /\ response.cause # "none"
             => (response.success = "false" /\ response.error # "-")

\* a request body failing schema validation answered with HTTP 400
C9_ValidationGets400 ==
    /\ response.endpoint \in ToolEndpoints
    /\ response.cause = "ZodError"
    /\ response.status = 400
    /\ response.success = "absent"

\* ------------------------------------------------------------------------
\* A busy day: short visits booked one after the other on the Monday after
\* the clock's Friday, each as early as the conflict check allows, and the
\* free slots of that day and of the Saturday before it queried in between.
\* ------------------------------------------------------------------------
MaxBooked == 21
BusyDate == 4
SHORT_VISIT_MINUTES == 5
SHORT_VISIT_SPACING == 21

ShortVisit(k) ==
    [patientPhone |-> CallerPhone, appointmentDate |-> BusyDate,
     appointmentTime |-> businessHoursStart + SHORT_VISIT_SPACING * k,
     durationMinutes |-> SHORT_VISIT_MINUTES]

BookShortVisit ==
    /\ Len(appointments) < MaxBooked
    /\ LET input == ShortVisit(Len(appointments))
           out == createAppointment(appointments, users, now, input, CallerPhone, NoFault)
       IN /\ appointments' = out.appointments
          /\ users' = out.users
          /\ last' = Call("createAppointment", input, CallerPhone, NoId, NoUpdates,
                          NoString, NoFault, out, << >>)
    /\ UNCHANGED <<now, tasks, response, callLogs, cache, redisState>>

NextSlots ==
    \/ BookShortVisit
    \/ \E date \in {2, BusyDate},
          durationMinutes \in {APPOINTMENT_DURATION_MINUTES,
                               businessHoursEnd - businessHoursStart - 30},
          fault \in {NoFault, "list"} :
          GetAvailableSlots(date, durationMinutes, fault)

SpecSlots == Init /\ [][NextSlots]_vars

FutureDateSlots ==
    /\ last.op = "getAvailableSlots"
    /\ last.fault = NoFault
    /\ ~isPastDateTime(last.input.appointmentDate, 0, last.clock)

\* C11: getAvailableSlots for a future date returns, in ascending order,
\* exactly the candidates opening + 15k with candidate + duration <= closing
\* that have no conflict (hasTimeConflict with the configured buffer) with
\* any scheduled or confirmed appointment of that date.
C11_FutureSlots ==
    FutureDateSlots
    => /\ last.res.kind = "ok"
       /\ \A i, j \in DOMAIN last.slots : i < j => last.slots[i] < last.slots[j]
       /\ {last.slots[i] : i \in DOMAIN last.slots}
             = ExpectedSlots(last.before, last.input.appointmentDate,
                             last.input.durationMinutes, last.clock)

\* a slot offered although it conflicts with an active appointment of the day
C11_ConflictingSlotOffered ==
    /\ FutureDateSlots
    /\ last.res.kind = "ok"
    /\ \E i \in DOMAIN last.slots :
          last.slots[i] \notin ExpectedSlots(last.before, last.input.appointmentDate,
                                             last.input.durationMinutes, last.clock)

\* the same statement for days with at most LIST_LIMIT active appointments
C11_FutureSlotsWithinPage ==
    (FutureDateSlots
        /\ Cardinality(listMatches(last.before, NoId, ActiveStatuses,
                                   last.input.appointmentDate,
                                   last.input.appointmentDate)) <= LIST_LIMIT)
    => /\ last.res.kind = "ok"
       /\ {last.slots[i] : i \in DOMAIN last.slots}
             = ExpectedSlots(last.before, last.input.appointmentDate,
                             last.input.durationMinutes, last.clock)

\* the empty day with three candidates: opening, opening + 15, opening + 30
C11_ThreeSlots ==
    /\ FutureDateSlots
    /\ last.before = << >>
    /\ last.slots = <<businessHoursStart, businessHoursStart + 15,
                      businessHoursStart + 30>>

\* ------------------------------------------------------------------------
\* The date utilities applied to arguments of their own: every weekday with
\* the minutes around opening and closing, and intervals before, around and
\* after an existing one, with and without a buffer.
\* ------------------------------------------------------------------------
WeekDates == 0..6
HourEdgeTimes ==
    {0, 12 * 60, 23 * 60 + 59}
        \cup ((businessHoursStart - 3)..(businessHoursStart + 3))
        \cup ((businessHoursEnd - 3)..(businessHoursEnd + 3))

IsWithinBusinessHours(date, time) ==
    /\ last' = Applied("isWithinBusinessHours", [date |-> date, time |-> time],
                       isWithinBusinessHours(date, time))
    /\ UNCHANGED <<appointments, users, now, tasks, response, callLogs, cache, redisState>>

ExistingIntervals == { <<60, 90>>, <<75, 75>> }
NewStarts == { 5 * k : k \in 0..24 }
NewLengths == {0, 30, 90}
BufferValues == {0, APPOINTMENT_BUFFER_MINUTES}

HasTimeConflict(newStart, newEnd, existing, bufferMinutes) ==
    /\ last' = Applied("hasTimeConflict",
                       [newStart |-> newStart, newEnd |-> newEnd,
                        existingStart |-> existing[1], existingEnd |-> existing[2],
                        bufferMinutes |-> bufferMinutes],
                       hasTimeConflict(newStart, newEnd, existing[1], existing[2],
                                       bufferMinutes))
    /\ UNCHANGED <<appointments, users, now, tasks, response, callLogs, cache, redisState>>

NextDateUtils ==
    \/ \E date \in WeekDates, time \in HourEdgeTimes : IsWithinBusinessHours(date, time)
    \/ \E newStart \in NewStarts, length \in NewLengths,
          existing \in ExistingIntervals, bufferMinutes \in BufferValues :
          HasTimeConflict(newStart, newStart + length, existing, bufferMinutes)

SpecDateUtils == Init /\ [][NextDateUtils]_vars

\* the civil weekday of a day number, counted from Thursday 1970-01-01
CivilWeekday(date) == <<4, 5, 6, 0, 1, 2, 3>>[(date % 7) + 1]

\* C12: isWithinBusinessHours(date, time) is true exactly when the civil
\* weekday of the date is an open day and opening <= minute of day <= closing,
\* both bounds included.
C12_BusinessHours ==
    last.op = "isWithinBusinessHours"
    => (last.value
          <=> /\ CivilWeekday(last.args.date) \in businessDays
              /\ businessHoursStart <= last.args.time
              /\ last.args.time <= businessHoursEnd)

\* the closing minute itself of an open day is inside
C12_ClosingMinuteInside ==
    /\ last.op = "isWithinBusinessHours"
    /\ last.args.time = businessHoursEnd
    /\ last.value

\* C20: hasTimeConflict is true exactly when newStart < existingEnd + buffer
\* and newEnd > existingStart - buffer, both strictly.
C20_StrictOverlap ==
    last.op = "hasTimeConflict"
    => (last.value
          <=> /\ last.args.newStart < last.args.existingEnd + last.args.bufferMinutes
              /\ last.args.newEnd > last.args.existingStart - last.args.bufferMinutes)

\* an interval starting exactly buffer minutes after the existing one ends
\* reported as a conflict
C20_TouchingConflicts ==
    /\ last.op = "hasTimeConflict"
    /\ last.args.newStart = last.args.existingEnd + last.args.bufferMinutes
    /\ last.args.newStart < last.args.newEnd
    /\ last.value

\* what hasTimeConflict computes: the same overlap with both bounds included
C20_InclusiveOverlap ==
    last.op = "hasTimeConflict"
    => (last.value
          <=> /\ last.args.newStart <= last.args.existingEnd + last.args.bufferMinutes
              /\ last.args.newEnd >= last.args.existingStart - last.args.bufferMinutes)

\* ------------------------------------------------------------------------
\* Moving appointments: bookings of the default and of a longer duration on
\* the clock's Friday and on the Monday after it, moved to another time of
\* their day or to the other day.
\* ------------------------------------------------------------------------
DateUpdates(dates) == {[NoUpdates EXCEPT !.appointmentDate = d] : d \in dates}

MoveInputs ==
    [patientPhone : {CallerPhone}, appointmentDate : {1, BusyDate},
     appointmentTime : {14 * 60, 14 * 60 + 46},
     durationMinutes : Durations]

NextMove ==
    \/ \E input \in MoveInputs : CreateAppointment(input, CallerPhone, NoFault)
    \/ \E id \in AppointmentIds,
          updates \in MoveUpdates({14 * 60, 14 * 60 + 15, 14 * 60 + 46, 17 * 60 + 1})
                          \cup DateUpdates({0, BusyDate}) :
          UpdateAppointment(id, updates, NoFault)

SpecMove == Init /\ [][NextMove]_vars

\* the date and time an update asks for, given the stored row
requestedDate(row, updates) ==
    IF updates.appointmentDate # NoValue
    THEN updates.appointmentDate ELSE row.appointment_date
requestedTime(row, updates) ==
    IF updates.appointmentTime # NoValue
    THEN updates.appointmentTime ELSE row.appointment_time % MINUTES_PER_DAY

\* the other active appointments whose buffered window the moved
\* appointment's new interval would touch
MoveCollisions(appts, id, updates) ==
    LET start == localToUtc(requestedDate(appts[id], updates),
                            requestedTime(appts[id], updates))
        end == start + appts[id].duration_minutes
    IN { other \in Ids(appts) \ {id} :
           /\ appts[other].status \in ActiveStatuses
           /\ start <= appts[other].end_time_utc + APPOINTMENT_BUFFER_MINUTES
           /\ end >= appts[other].start_time_utc - APPOINTMENT_BUFFER_MINUTES }

MoveRequested ==
    /\ last.op = "updateAppointment"
    /\ last.id \in Ids(last.before)
    /\ (last.updates.appointmentDate # NoValue \/ last.updates.appointmentTime # NoValue)

\* C13: updateAppointment fails with NotFoundError for an absent id and
\* changes nothing; a change of date and/or time is checked against the new
\* date and time (past, business hours, conflicts with the other active
\* appointments), succeeds when only the appointment's own interval is in
\* the way, and fails with ConflictError, leaving the record unchanged, when
\* the new interval falls into another active appointment's buffered window.
C13_MoveChecked ==
    /\ (last.op = "updateAppointment" /\ last.id \notin Ids(last.before))
          => /\ last.res.kind = "NotFoundError"
             /\ appointments = last.before
    /\ MoveRequested
          => LET row == last.before[last.id]
                 date == requestedDate(row, last.updates)
                 time == requestedTime(row, last.updates)
             IN IF isPastDateTime(date, time, last.clock)
                      \/ ~isWithinBusinessHours(date, time)
                THEN /\ last.res.kind = "BusinessRuleError"
                     /\ appointments = last.before
                ELSE IF MoveCollisions(last.before, last.id, last.updates) # {}
                THEN /\ last.res.kind = "ConflictError"
                     /\ appointments = last.before
                ELSE /\ last.res.kind = "ok"
                     /\ appointments[last.id].start_time_utc = localToUtc(date, time)

\* an appointment moved onto time another active appointment occupies
C13_MovedOntoOther ==
    /\ MoveRequested
    /\ last.res.kind = "ok"
    /\ \E other \in Ids(appointments) \ {last.id} :
          /\ appointments[other].status \in ActiveStatuses
          /\ appointments[last.id].start_time_utc < appointments[other].end_time_utc
          /\ appointments[other].start_time_utc < appointments[last.id].end_time_utc

\* a move to a free slot of another open day, the time kept, refused
C13_DateOnlyMoveRefused ==
    /\ MoveRequested
    /\ last.updates.appointmentTime = NoValue
    /\ ~isPastDateTime(last.updates.appointmentDate,
                       last.before[last.id].appointment_time % MINUTES_PER_DAY,
                       last.clock)
    /\ MoveCollisions(last.before, last.id, last.updates) = {}
    /\ last.res.kind = "RangeError"

\* the same statement for moves that name the new time, of appointments of
\* the default duration
C13_TimedDefaultMoves ==
    (MoveRequested
        /\ last.updates.appointmentTime # NoValue
        /\ last.before[last.id].duration_minutes = APPOINTMENT_DURATION_MINUTES)
    => LET row == last.before[last.id]
           date == requestedDate(row, last.updates)
           time == requestedTime(row, last.updates)
       IN IF isPastDateTime(date, time, last.clock)
                \/ ~isWithinBusinessHours(date, time)
          THEN /\ last.res.kind = "BusinessRuleError"
               /\ appointments = last.before
          ELSE IF MoveCollisions(last.before, last.id, last.updates) # {}
          THEN /\ last.res.kind = "ConflictError"
               /\ appointments = last.before
          ELSE /\ last.res.kind = "ok"
               /\ appointments[last.id].start_time_utc = localToUtc(date, time)

\* an appointment moved within its own current interval
C13_MovedWithinOwnInterval ==
    /\ MoveRequested
    /\ last.res.kind = "ok"
    /\ appointments[last.id].start_time_utc > last.before[last.id].start_time_utc
    /\ appointments[last.id].start_time_utc < last.before[last.id].end_time_utc

\* ------------------------------------------------------------------------
\* Two callers booking, editing and cancelling through the tool endpoints,
\* and a caller whose number has no canonical form asking for the same.
\* ------------------------------------------------------------------------
OtherPhone == <<"2", "1", "2", "5", "5", "5", "9", "8", "7", "6">>

LookupCreateBodies ==
    { body \in [full_name : {"Jane Doe"}, phone_number : {CallerPhone, OtherPhone},
                preferred_date : {1, BusyDate}, preferred_time : {14 * 60, 15 * 60}] :
        body.phone_number = CallerPhone <=> body.preferred_time = 14 * 60 }
LookupEditBodies ==
    [phone_number : {CallerPhone, OtherPhone, RestrictedPhone},
     original_date : {1, BusyDate},
     new_date : {NoValue}, new_time : {16 * 60}]
LookupCancelBodies ==
    [phone_number : {CallerPhone, OtherPhone, RestrictedPhone},
     appointment_date : {1, BusyDate},
     cancellation_reason : {"moved away"}]

NextLookup ==
    \/ \E body \in LookupCreateBodies : ToolCreateAppointment(body, NoFault)
    \/ \E body \in LookupEditBodies : ToolEditAppointment(body, NoFault)
    \/ \E body \in LookupCancelBodies : ToolCancelAppointment(body, NoFault)

SpecLookup == Init /\ [][NextLookup]_vars

\* the open appointments, on a date, of the user a phone's canonical form
\* identifies
OpenAppointmentsOf(phoneNumber, date) ==
    { id \in Ids(appointments) :
        /\ normalizePhoneNumber(phoneNumber) # NULL
        /\ \E u \in UserIds(users) :
              /\ users[u].phone_number = normalizePhoneNumber(phoneNumber)
              /\ appointments[id].user_id = u
        /\ appointments[id].status \in ActiveStatuses
        /\ appointments[id].appointment_date = date }

\* what a step changes: nothing but appointments among `targets`, and none
\* is added
ChangesOnly(targets) ==
    /\ Len(appointments') = Len(appointments)
    /\ \A id \in Ids(appointments) :
          appointments'[id] # appointments[id] => id \in targets

NotFoundAnswer(endpoint) ==
    /\ response'.endpoint = endpoint
    /\ response'.status = 200
    /\ response'.success = "false"
    /\ response'.error = "appointment_not_found"

\* C14: the edit and cancel tool callbacks modify only an open appointment
\* of the user the canonical form of the supplied phone identifies, on
\* exactly the supplied date; when there is none they answer
\* appointment_not_found with success=false and modify nothing.
C14_TargetOfEditAndCancel ==
    [][/\ \A body \in LookupEditBodies :
            ToolEditAppointment(body, NoFault)
            => LET open == OpenAppointmentsOf(body.phone_number, body.original_date)
               IN /\ ChangesOnly(open)
                  /\ open = {} => (NotFoundAnswer("appointment/edit")
                                      /\ appointments' = appointments)
       /\ \A body \in LookupCancelBodies :
            ToolCancelAppointment(body, NoFault)
            => LET open == OpenAppointmentsOf(body.phone_number, body.appointment_date)
               IN /\ ChangesOnly(open)
                  /\ open = {} => (NotFoundAnswer("appointment/cancel")
                                      /\ appointments' = appointments)]_vars

\* a caller's appointment cancelled through the tool while another caller's
\* appointment of the same date stays scheduled
C14_OnlyOwnCancelled ==
    /\ response.endpoint = "appointment/cancel"
    /\ response.success = "true"
    /\ \E a, b \in Ids(appointments) :
          /\ appointments[a].user_id # appointments[b].user_id
          /\ appointments[a].appointment_date = appointments[b].appointment_date
          /\ appointments[a].status = "cancelled"
          /\ appointments[b].status = "scheduled"

\* ------------------------------------------------------------------------
\* Properties of the inbound call
\* ------------------------------------------------------------------------
InboundHandled == last.op = "handleInboundCall"

\* a core step of the call handled last failed: the user lookup or creation,
\* the call-log creation or the start of the AI session
CoreStepFailed ==
    /\ InboundHandled
    /\ \/ last.args.session = "fail"
       \/ last.args.fault = "callLogCreate"
       \/ last.args.fault = "findByPhone"
             /\ normalizePhoneNumber(last.args.from) # NULL
       \/ last.args.fault = "insertUser"
             /\ findByPhone(users, last.args.from) = NoId

\* C15: when the user lookup or creation, the call-log creation or the AI
\* session start fails, the answer is the spoken error announcement, never
\* the connect-to-stream response; the call's log, if there is one, is then
\* marked failed, and a failure of that marking changes nothing else.
C15_CoreFailureAnnounced ==
    CoreStepFailed
    => /\ response.endpoint = "twilio/inbound"
       /\ response.status = 200
       /\ response.twiml = "error"
       /\ last.args.fault # "callLogUpdate"
             => \A i \in DOMAIN callLogs :
                   callLogs[i].call_sid = last.args.callSid
                   => callLogs[i].status = "failed"

\* the AI session failed to start for a call whose log had been created, and
\* the log is marked failed
C15_SessionFailureMarked ==
    /\ CoreStepFailed
    /\ last.args.session = "fail"
    /\ response.cause = "session"
    /\ \E i \in DOMAIN callLogs :
          /\ callLogs[i].call_sid = last.args.callSid
          /\ callLogs[i].status = "failed"

AnonymousCallHandled ==
    /\ InboundHandled
    /\ isAnonymousCaller(last.args.from)
    /\ last.args.session = "ok"
    /\ last.args.redis = "up"
    /\ last.args.fault = NoFault

\* C16: an inbound call without a caller number, or with an anonymous
\* sentinel as number, whose AI session starts gets the connect-to-stream
\* response; a user without phone key was created for it and its
\* correlation entry is flagged anonymous with phone null.
C16_AnonymousConnected ==
    AnonymousCallHandled
    => /\ response.twiml = "stream"
       /\ \E u \in UserIds(users) : users[u].phone_number = NULL
       /\ \E e \in cache :
             /\ e.key = last.args.callSid
             /\ e.value.isAnonymous
             /\ e.value.phoneNumber = NULL

\* the anonymous caller hears the error announcement: no user could be
\* created for the call
C16_AnonymousRejected ==
    /\ AnonymousCallHandled
    /\ response.twiml = "error"
    /\ response.cause = "user"
    /\ \A u \in UserIds(users) : users[u].phone_number # NULL

\* ------------------------------------------------------------------------
\* The appointment counter: bookings by two callers, accepted and rejected
\* (past day, after closing, conflicting), with the counter
\* increment or the appointment insert failing.
\* ------------------------------------------------------------------------
CounterInputs ==
    [patientPhone : {CallerPhone}, appointmentDate : {0, 1},
     appointmentTime : {14 * 60, 14 * 60 + 46, 17 * 60 + 1},
     durationMinutes : {NoValue}]

NextCounter ==
    \/ \E input \in CounterInputs, phoneNumber \in {CallerPhone, OtherPhone},
          fault \in {NoFault, "incrementAppointmentCount", "insertAppointment"} :
          CreateAppointment(input, phoneNumber, fault)
    \/ \E id \in AppointmentIds : CancelAppointment(id, NoString, NoFault)

SpecCounter == Init /\ [][NextCounter]_vars

\* the number of appointments created for a user
AppointmentsCreatedFor(u) ==
    Cardinality({ id \in Ids(appointments) : appointments[id].user_id = u })

\* total_appointments of a user in the table before the call (0: no such user)
CountBefore(u) ==
    IF u \in UserIds(last.usersBefore)
    THEN last.usersBefore[u].total_appointments ELSE 0

\* the booking executed last would be accepted: a future time within
\* business hours that collides with no active appointment
BookingAcceptable ==
    /\ ~isPastDateTime(last.input.appointmentDate, last.input.appointmentTime,
                       last.clock)
    /\ isWithinBusinessHours(last.input.appointmentDate, last.input.appointmentTime)
    /\ findConflicts(last.before,
                     bufferedStart(last.input.appointmentDate,
                                   last.input.appointmentTime),
                     bufferedEnd(last.input.appointmentDate,
                                 last.input.appointmentTime), NoId) = {}

\* C17: a failing counter increment does not fail the booking; a successful
\* booking raises its user's total_appointments by exactly 1 when the
\* increment succeeds; a rejected booking raises no counter; so no counter
\* exceeds the number of appointments created for its user.
C17_Counter ==
    /\ \A u \in UserIds(users) :
          users[u].total_appointments <= AppointmentsCreatedFor(u)
    /\ last.op = "createAppointment"
          => /\ (last.fault = "incrementAppointmentCount" /\ BookingAcceptable)
                   => /\ last.res.kind = "ok"
                      /\ Len(appointments) = Len(last.before) + 1
                      /\ \A u \in UserIds(users) :
                            users[u].total_appointments = CountBefore(u)
             /\ (last.fault = NoFault /\ last.res.kind = "ok")
                   => \A u \in UserIds(users) :
                         users[u].total_appointments =
                            CountBefore(u)
                              + (IF appointments[last.res.id].user_id = u
                                 THEN 1 ELSE 0)
             /\ last.res.kind # "ok"
                   => /\ appointments = last.before
                      /\ \A u \in UserIds(users) :
                            users[u].total_appointments = CountBefore(u)

\* a booking stored although its counter increment failed: the user has
\* more appointments than the counter says
C17_BookedUncounted ==
    /\ last.op = "createAppointment"
    /\ last.fault = "incrementAppointmentCount"
    /\ last.res.kind = "ok"
    /\ \E u \in UserIds(users) :
          users[u].total_appointments < AppointmentsCreatedFor(u)

\* ------------------------------------------------------------------------
\* The patient's phone: bookings whose patientPhone has a canonical form,
\* is too short, or is an anonymous sentinel, made by two callers.
\* ------------------------------------------------------------------------
PatientInputs ==
    [patientPhone : {OtherPhone, ShortPhone, RestrictedPhone},
     appointmentDate : {1, BusyDate}, appointmentTime : {14 * 60, 14 * 60 + 46},
     durationMinutes : {NoValue}]

NextPatient ==
    \/ \E input \in PatientInputs, phoneNumber \in {CallerPhone, OtherPhone} :
          CreateAppointment(input, phoneNumber, NoFault)
    \/ \E id \in AppointmentIds : CancelAppointment(id, NoString, NoFault)

SpecPatient == Init /\ [][NextPatient]_vars

\* a phone in canonical form: normalizePhoneNumber leaves it as it is
IsCanonicalPhone(phone) ==
    phone # NULL /\ normalizePhoneNumber(phone) = phone

\* the booking executed last was stored
BookingStored ==
    /\ last.op = "createAppointment"
    /\ last.res.kind = "ok"
    /\ last.res.id \in Ids(appointments)

\* C18: a stored appointment's patient_phone is the canonical form of
\* input.patientPhone when it has one, and the caller's own canonical phone
\* when it has none; every stored patient_phone is a canonical phone.
C18_PatientPhoneCanonical ==
    /\ BookingStored
          => appointments[last.res.id].patient_phone =
                (IF normalizePhoneNumber(last.input.patientPhone) # NULL
                 THEN normalizePhoneNumber(last.input.patientPhone)
                 ELSE normalizePhoneNumber(last.phone))
    /\ \A id \in Ids(appointments) :
          IsCanonicalPhone(appointments[id].patient_phone)

\* a booking by a caller with a canonical phone, stored with the patient's
\* phone exactly as it was given, in no canonical form
C18_RawPatientPhoneStored ==
    /\ BookingStored
    /\ normalizePhoneNumber(last.phone) # NULL
    /\ normalizePhoneNumber(last.input.patientPhone) = NULL
    /\ appointments[last.res.id].patient_phone = last.input.patientPhone
    /\ ~IsCanonicalPhone(appointments[last.res.id].patient_phone)

\* C18 (second half): when input.patientPhone has a canonical form, the
\* stored patient_phone is that form.
C18_CanonicalFormStored ==
    (BookingStored /\ normalizePhoneNumber(last.input.patientPhone) # NULL)
       => /\ appointments[last.res.id].patient_phone =
                normalizePhoneNumber(last.input.patientPhone)
          /\ IsCanonicalPhone(appointments[last.res.id].patient_phone)

\* a booking stored with the canonical form of the patient's phone, which
\* is not the caller's
C18_OtherPatientStored ==
    /\ BookingStored
    /\ appointments[last.res.id].patient_phone = normalizePhoneNumber(OtherPhone)
    /\ normalizePhoneNumber(last.phone) # normalizePhoneNumber(OtherPhone)

\* ------------------------------------------------------------------------
\* Looking up a caller's appointments: two callers book, confirm and
\* cancel; findUserAppointments is called with phones that have a canonical
\* form (known or unknown to the users table) and phones that have none,
\* with and without a status filter, with the store healthy or failing.
\* ------------------------------------------------------------------------
FindUserAppointments(phoneNumber, statusFilter, fault) ==
    /\ \E out \in findUserAppointments(appointments, users, phoneNumber,
                                       statusFilter, fault) :
          last' = Applied("findUserAppointments",
                          [phoneNumber |-> phoneNumber,
                           statusFilter |-> statusFilter, fault |-> fault], out)
    /\ UNCHANGED <<appointments, users, now, tasks, response, callLogs, cache, redisState>>

FindCreateInputs ==
    [patientPhone : {CallerPhone}, appointmentDate : {1},
     appointmentTime : {14 * 60, 14 * 60 + 46}, durationMinutes : {NoValue}]
FindPhones == {CallerPhone, OtherPhone, ShortPhone, RestrictedPhone}
StatusFilters == {{}, ActiveStatuses, {"cancelled"}}

NextFind ==
    \/ \E input \in FindCreateInputs, phoneNumber \in {CallerPhone, OtherPhone} :
          CreateAppointment(input, phoneNumber, NoFault)
    \/ \E id \in AppointmentIds :
          UpdateAppointment(id, [NoUpdates EXCEPT !.status = "confirmed"], NoFault)
    \/ \E id \in AppointmentIds : CancelAppointment(id, NoString, NoFault)
    \/ \E phoneNumber \in FindPhones, statusFilter \in StatusFilters,
          fault \in {NoFault, "findByPhone", "list"} :
          FindUserAppointments(phoneNumber, statusFilter, fault)

SpecFind == Init /\ [][NextFind]_vars

\* the appointments a lookup for this user and filter may return
OwnedInFilter(user, statusFilter) ==
    { id \in Ids(appointments) :
        /\ appointments[id].user_id = user
        /\ (statusFilter # {} => appointments[id].status \in statusFilter) }

\* C19: findUserAppointments returns empty, without raising and without
\* reading the store, for a phone with no canonical form; returns empty
\* when no user has the canonical phone; otherwise returns only (and, below
\* the page limit, all) appointments of that user whose status is in the
\* filter, every status when there is no filter.
C19_FindUserAppointments ==
    last.op = "findUserAppointments"
       => LET phone == normalizePhoneNumber(last.args.phoneNumber)
              user == findByPhone(users, phone)
              owned == OwnedInFilter(user, last.args.statusFilter)
          IN /\ phone = NULL
                   => last.value = [res |-> Ok(NoId), ids |-> {}]
             /\ (phone # NULL /\ user = NoId /\ last.args.fault # "findByPhone")
                   => last.value = [res |-> Ok(NoId), ids |-> {}]
             /\ (phone # NULL /\ user # NoId /\ last.args.fault = NoFault)
                   => /\ last.value.res = Ok(NoId)
                      /\ last.value.ids \subseteq owned
                      /\ Cardinality(owned) <= LIST_LIMIT
                            => last.value.ids = owned

\* a filtered lookup that returned the caller's active appointment and left
\* out the caller's cancelled one
C19_OwnActiveFound ==
    /\ last.op = "findUserAppointments"
    /\ last.args.statusFilter = ActiveStatuses
    /\ last.value.ids # {}
    /\ \E id \in Ids(appointments) \ last.value.ids :
          /\ appointments[id].status = "cancelled"
          /\ \E own \in last.value.ids :
                appointments[own].user_id = appointments[id].user_id

\* an unfiltered lookup that returned the caller's appointment and left out
\* another caller's
C19_OthersLeftOut ==
    /\ last.op = "findUserAppointments"
    /\ last.args.statusFilter = {}
    /\ last.value.ids # {}
    /\ \E id \in Ids(appointments) \ last.value.ids :
          \A own \in last.value.ids :
             appointments[own].user_id # appointments[id].user_id

\* a lookup for an anonymous caller answered empty while the store fails
C19_NoCanonicalNoRead ==
    /\ last.op = "findUserAppointments"
    /\ last.args.phoneNumber = RestrictedPhone
    /\ last.args.fault = "findByPhone"
    /\ last.value = [res |-> Ok(NoId), ids |-> {}]
    /\ appointments # << >>

\* ------------------------------------------------------------------------
\* Phone normalization: normalizePhoneNumber applied to phone texts with and
\* without a leading "+", a leading 1, punctuation, nine to twelve digits,
\* and to the anonymous sentinels in several letter cases; then applied
\* again to its own result.
\* ------------------------------------------------------------------------
PhonePrefixes == {<< >>, <<"+">>, <<"(">>, <<" ">>}
PhoneLeads == {<< >>, <<"1">>, <<"2">>}
PhoneAreas == {<<"8", "1", "8">>, <<"1", "8">>}
PhoneSeparators == {<< >>, <<"-">>, <<")", " ">>}
PhoneLines == {<<"5", "5", "5", "1", "2", "3", "4">>, <<"5", "5", "5", "1", "2", "3">>, <<"5", "5", "5", "1", "2", "3", "4", "5">>}

ExamplePhones ==
    {<<"8", "1", "8", "5", "5", "5", "1", "2", "3", "4">>, <<"1", "8", "1", "8", "5", "5", "5", "1", "2", "3", "4">>, <<"+", "1", "8", "1", "8", "5", "5", "5", "1", "2", "3", "4">>,
     <<"(", "8", "1", "8", ")", " ", "5", "5", "5", "-", "1", "2", "3", "4">>}

SentinelTexts ==
    {<<"a", "n", "o", "n", "y", "m", "o", "u", "s">>, <<"R", "e", "s", "t", "r", "i", "c", "t", "e", "d">>,
     <<"B", "L", "O", "C", "K", "E", "D">>, <<"U", "n", "k", "n", "o", "w", "n">>,
     <<"A", "N", "O", "N", "Y", "M", "O", "U", "S">>, << >>, <<"+">>,
     <<"r", "e", "s", "t", "r", "i", "c", "t", "e", "d">>}

PhoneTexts ==
    { prefix \o lead \o area \o sep \o line :
        prefix \in PhonePrefixes, lead \in PhoneLeads, area \in PhoneAreas,
        sep \in PhoneSeparators, line \in PhoneLines }
      \cup ExamplePhones \cup SentinelTexts

NormalizePhoneNumber(phone) ==
    /\ last' = Applied("normalizePhoneNumber", phone, normalizePhoneNumber(phone))
    /\ UNCHANGED <<appointments, users, now, tasks, response, callLogs, cache, redisState>>

\* normalizePhoneNumber applied to the result of the call before
NormalizeAgain ==
    /\ last.op = "normalizePhoneNumber"
    /\ last.value # NULL
    /\ last' = Applied("normalizeAgain", last.value,
                       normalizePhoneNumber(last.value))
    /\ UNCHANGED <<appointments, users, now, tasks, response, callLogs, cache, redisState>>

NextPhone ==
    \/ \E phone \in PhoneTexts : NormalizePhoneNumber(phone)
    \/ NormalizeAgain

SpecPhone == Init /\ [][NextPhone]_vars

\* C21: normalizing a normalized phone gives the same phone.
C21_Idempotent ==
    last.op = "normalizeAgain" => last.value = last.args

\* the canonical value, the result of a normalization, was normalized
\* again and came back unchanged
C21_NormalizedTwice ==
    /\ last.op = "normalizeAgain"
    /\ last.args = <<"+", "1", "8", "1", "8", "5", "5", "5", "1", "2", "3", "4">>
    /\ last.value = last.args

\* the digits of a text, in order
DigitsOf(str) == SelectSeq(str, LAMBDA c : c \in DigitChars)

\* C22: normalizePhoneNumber gives null for the anonymous sentinels in any
\* letter case and for fewer than 10 digits; otherwise "+" and digits only:
\* without leading "+", 11 digits starting with 1 give "+" and the digits
\* and anything else "+1" and the digits; with leading "+", "+" and the
\* digits.  The four example spellings give one canonical value.
C22_Normalization ==
    last.op = "normalizePhoneNumber"
       => LET phone == last.args
              digits == DigitsOf(phone)
              plus == Len(phone) > 0 /\ phone[1] = "+"
          IN /\ (toLowerCase(phone) \in AnonymousSentinels \/ Len(digits) < 10)
                   => last.value = NULL
             /\ (toLowerCase(phone) \notin AnonymousSentinels /\ Len(digits) >= 10)
                   => /\ last.value # NULL
                      /\ last.value[1] = "+"
                      /\ \A i \in 2..Len(last.value) : last.value[i] \in DigitChars
                      /\ (~plus /\ Len(digits) = 11 /\ digits[1] = "1")
                            => last.value = <<"+">> \o digits
                      /\ (~plus /\ ~(Len(digits) = 11 /\ digits[1] = "1"))
                            => last.value = <<"+", "1">> \o digits
                      /\ plus => last.value = <<"+">> \o digits
             /\ phone \in ExamplePhones
                   => last.value = <<"+", "1", "8", "1", "8", "5", "5", "5", "1", "2", "3", "4">>

\* the punctuated example was normalized to the canonical value
C22_PunctuatedExample ==
    /\ last.op = "normalizePhoneNumber"
    /\ last.args = <<"(", "8", "1", "8", ")", " ", "5", "5", "5", "-", "1", "2", "3", "4">>
    /\ last.value = <<"+", "1", "8", "1", "8", "5", "5", "5", "1", "2", "3", "4">>

\* a sentinel in capital letters and a nine-digit text gave null
C22_SentinelNull ==
    /\ last.op = "normalizePhoneNumber"
    /\ last.args = <<"B", "L", "O", "C", "K", "E", "D">>
    /\ last.value = NULL

\* ------------------------------------------------------------------------
\* Session-correlation entries over time: inbound calls with the AI provider
\* and the cache store up or failing, and the passing of time.  No callback
\* arrives, so nothing deletes an entry.
\* ------------------------------------------------------------------------
MaxElapsedMinutes == 60
ElapseSteps == {1800}

\* `seconds` pass; the clock of the model stops at its last value, the
\* cache store goes on expiring
Elapse(seconds) ==
    /\ now' = IF now + seconds \div 60 <= ClockValues[1] + MaxElapsedMinutes
              THEN now + seconds \div 60 ELSE now
    /\ cache' = expireEntries(cache, seconds)
    /\ UNCHANGED <<appointments, users, last, tasks, response, callLogs, redisState>>

TimePasses == \E seconds \in ElapseSteps : Elapse(seconds)

NextSession ==
    \/ \E callSid \in CallSids, from \in {CallerE164, RestrictedPhone},
          session \in {"ok", "fail"}, redis \in {"up", "down"} :
          HandleInboundCall(callSid, from, session, redis, NoFault)
    \/ TimePasses

SpecSession == Init /\ [][NextSession]_vars /\ WF_vars(TimePasses)

CacheKeys == { e.key : e \in cache }

\* C23: every session-correlation entry is written with a time to live of
\* at most 3600 s in the step that writes its value, and every entry is
\* eventually absent from the cache although nothing deletes it.
C23_SessionEntriesExpire ==
    /\ [](\A e \in cache : e.ttl \in 1..SESSION_TTL_SECONDS)
    /\ [][\A e \in cache' : e.key \notin CacheKeys => e.ttl = SESSION_TTL_SECONDS]_vars
    /\ \A callSid \in CallSids :
          (callSid \in CacheKeys) ~> (callSid \notin CacheKeys)

\* the entry of a connected call with 1800 of its 3600 seconds left
C23_EntryHalfExpired ==
    /\ response.twiml = "stream"
    /\ \E e \in cache : e.ttl = SESSION_TTL_SECONDS - 1800

\* a call was connected and its entry is gone from the cache
C23_EntryExpired ==
    /\ \E l \in DOMAIN callLogs : callLogs[l].status = "connected"
    /\ cache = {}

\* ------------------------------------------------------------------------
\* The stored record
\* ------------------------------------------------------------------------
\* the time of day a value of the TIME column denotes
civilTime(column) == column % MINUTES_PER_DAY

\* the UTC fields of a row agree with its civil fields and its duration
RowConsistent(row) ==
    /\ row.end_time_utc > row.start_time_utc
    /\ row.end_time_utc = row.start_time_utc + row.duration_minutes
    /\ row.start_time_utc =
          localToUtc(row.appointment_date, civilTime(row.appointment_time))

\* the update executed last changed the date or the time of a stored row
MoveDone ==
    /\ MoveRequested
    /\ last.res.kind = "ok"

\* C24: every stored appointment has end_time_utc > start_time_utc,
\* end_time_utc = start_time_utc + duration_minutes and start_time_utc the
\* localization of its own date and time; createAppointment stores status
\* 'scheduled'; an updateAppointment that changes date or time rewrites the
\* civil fields and both UTC fields together.
C24_RecordConsistent ==
    /\ \A id \in Ids(appointments) : RowConsistent(appointments[id])
    /\ (last.op = "createAppointment" /\ last.res.kind = "ok")
          => appointments[last.res.id].status = "scheduled"
    /\ MoveDone
          => LET row == appointments[last.id]
                 date == requestedDate(last.before[last.id], last.updates)
                 time == requestedTime(last.before[last.id], last.updates)
             IN /\ row.appointment_date = date
                /\ civilTime(row.appointment_time) = time
                /\ row.start_time_utc = localToUtc(date, time)
                /\ row.end_time_utc = localToUtc(date, time) + row.duration_minutes
                /\ row.duration_minutes = last.before[last.id].duration_minutes

\* a 60-minute appointment moved to another time: both UTC fields changed
C24_LongAppointmentMoved ==
    /\ MoveDone
    /\ appointments[last.id].duration_minutes = 60
    /\ appointments[last.id].start_time_utc # last.before[last.id].start_time_utc
    /\ appointments[last.id].end_time_utc # last.before[last.id].end_time_utc

\* C25: appointments are never physically deleted: every step keeps every
\* stored appointment under its id with its owning user_id, and a
\* cancellation changes the row's status to 'cancelled' (and its notes when
\* a reason is given) and nothing else in the table.
C25_NeverDeleted ==
    [][/\ \A id \in Ids(appointments) :
             /\ id \in Ids(appointments')
             /\ appointments'[id].user_id = appointments[id].user_id
        /\ (last'.op = "cancelAppointment" /\ last'.res.kind = "ok")
              => /\ last'.id \in Ids(appointments)
                 /\ appointments'[last'.id].status = "cancelled"
                 /\ appointments' =
                       [appointments EXCEPT
                          ![last'.id].status = "cancelled",
                          ![last'.id].notes = appointments'[last'.id].notes]]_vars

\* two appointments stored, one of them cancelled and still in the table
\* with every other field as it was
C25_CancelledKept ==
    /\ last.op = "cancelAppointment"
    /\ last.res.kind = "ok"
    /\ Len(appointments) = 2
    /\ appointments = [last.before EXCEPT ![last.id].status = "cancelled"]

\* ------------------------------------------------------------------------
\* Storage failures: the storage operations a service call attempts, in
\* order, up to the one that throws; `fault` names the operation that fails
\* whenever it is attempted.
\* ------------------------------------------------------------------------
\* the storage operations whose failure the repository throws
CriticalStorageOps ==
    {"findByPhone", "insertUser", "findConflicts", "insertAppointment",
     "findById", "update", "cancel"}

findOrCreateCalls(usrs, phoneNumber, fault) ==
    IF normalizePhoneNumber(phoneNumber) = NULL THEN <<"insertUser">>
    ELSE IF fault = "findByPhone" THEN <<"findByPhone">>
    ELSE IF findByPhone(usrs, normalizePhoneNumber(phoneNumber)) # NoId
         THEN <<"findByPhone", "updateLastCall">>
         ELSE <<"findByPhone", "insertUser">>

createAppointmentCalls(appts, usrs, clock, input, phoneNumber, fault) ==
    LET normalizedPhone == orElse(normalizePhoneNumber(phoneNumber), phoneNumber)
        u == findOrCreate(usrs, normalizedPhone, clock, fault)
        userCalls == findOrCreateCalls(usrs, normalizedPhone, fault)
        v == validateAppointmentTime(input.appointmentDate, input.appointmentTime, clock)
        c == checkConflicts(appts, input.appointmentDate, input.appointmentTime,
                            NoId, fault)
    IN IF IsError(u.res) \/ IsError(v) THEN userCalls
       ELSE IF IsError(c) THEN userCalls \o <<"findConflicts">>
       ELSE IF IsError(insertAppointment(appts, input, u.id, fault).res)
            THEN userCalls \o <<"findConflicts", "insertAppointment">>
       ELSE userCalls \o <<"findConflicts", "insertAppointment",
                            "incrementAppointmentCount">>

updateAppointmentCalls(appts, clock, appointmentId, updates, fault) ==
    IF fault = "findById" \/ appointmentId \notin Ids(appts) THEN <<"findById">>
    ELSE
    LET existingAppointment == appts[appointmentId]
        moved == updates.appointmentDate # NoValue \/ updates.appointmentTime # NoValue
        newDate == IF updates.appointmentDate # NoValue
                   THEN updates.appointmentDate
                   ELSE existingAppointment.appointment_date
        newTime == IF updates.appointmentTime # NoValue
                   THEN updates.appointmentTime
                   ELSE existingAppointment.appointment_time
    IN IF IsError(validateStatusTransition(existingAppointment.status, updates.status))
       THEN <<"findById">>
       ELSE IF ~moved THEN <<"findById", "update">>
       ELSE IF IsError(validateAppointmentTime(newDate, newTime, clock))
       THEN <<"findById">>
       ELSE IF IsError(checkConflicts(appts, newDate, newTime, appointmentId, fault))
       THEN <<"findById", "findConflicts">>
       ELSE <<"findById", "findConflicts", "findById", "update">>

cancelAppointmentCalls(appts, appointmentId, fault) ==
    IF fault = "findById" \/ appointmentId \notin Ids(appts) THEN <<"findById">>
    ELSE IF appts[appointmentId].status \in {"cancelled", "completed"}
    THEN <<"findById">>
    ELSE <<"findById", "cancel">>

FaultInputs ==
    [patientPhone : {CallerPhone}, appointmentDate : {1},
     appointmentTime : {14 * 60, 14 * 60 + 46}, durationMinutes : {NoValue}]
\* the storage operations each service call can attempt
CreateFaults ==
    {NoFault, "findByPhone", "insertUser", "updateLastCall", "findConflicts",
     "insertAppointment", "incrementAppointmentCount"}
UpdateFaults == {NoFault, "findById", "findConflicts", "update"}
CancelFaults == {NoFault, "findById", "cancel"}

NextFaults ==
    \/ \E input \in FaultInputs, phoneNumber \in Phones, fault \in CreateFaults :
          CreateAppointment(input, phoneNumber, fault)
    \/ \E id \in AppointmentIds,
          updates \in StatusUpdates({"confirmed"}) \cup MoveUpdates({15 * 60 + 30}),
          fault \in UpdateFaults :
          UpdateAppointment(id, updates, fault)
    \/ \E id \in AppointmentIds, fault \in CancelFaults :
          CancelAppointment(id, NoString, fault)

SpecFaults == Init /\ [][NextFaults]_vars

\* the storage operations attempted by the service call executed last
LastCalls ==
    IF last.op = "createAppointment"
    THEN createAppointmentCalls(last.before, last.usersBefore, last.clock,
                                last.input, last.phone, last.fault)
    ELSE IF last.op = "updateAppointment"
    THEN updateAppointmentCalls(last.before, last.clock, last.id, last.updates,
                                last.fault)
    ELSE IF last.op = "cancelAppointment"
    THEN cancelAppointmentCalls(last.before, last.id, last.fault)
    ELSE << >>

Attempts(calls, op) == Cardinality({ i \in DOMAIN calls : calls[i] = op })

\* the service call executed last attempted the failing operation `last.fault`
FaultHit == last.fault # NoFault /\ Attempts(LastCalls, last.fault) > 0

\* the call failed with DatabaseError at the failing operation, which was
\* attempted once and was the last operation attempted; no appointment and
\* no counter was written
FailedAtFault ==
    /\ last.res.kind = "DatabaseError"
    /\ Attempts(LastCalls, last.fault) = 1
    /\ LastCalls[Len(LastCalls)] = last.fault
    /\ appointments = last.before
    /\ \A u \in UserIds(last.usersBefore) :
          users[u].total_appointments = last.usersBefore[u].total_appointments

\* C26 (as stated): when a storage operation fails during createAppointment,
\* updateAppointment or cancelAppointment, the call fails with DatabaseError
\* (NotFoundError only for a missing id), the failed operation is attempted
\* exactly once and no later step of the call is executed.
C26_AnyStorageFailureFails ==
    /\ FaultHit => FailedAtFault
    /\ last.res.kind = "NotFoundError"
          => (last.op \in {"updateAppointment", "cancelAppointment"}
                /\ last.id \notin Ids(last.before))

\* C26 (amended): the same for the storage operations whose failure the
\* repository throws, which are all but the last-call update and the
\* counter increment.
C26_CriticalStorageFailureFails ==
    /\ (FaultHit /\ last.fault \in CriticalStorageOps) => FailedAtFault
    /\ last.res.kind = "NotFoundError"
          => (last.op \in {"updateAppointment", "cancelAppointment"}
                /\ last.id \notin Ids(last.before))

\* a move whose UPDATE failed after the lookup and the conflict query
\* succeeded: DatabaseError, and the row is where it was
C26_UpdateFailedLast ==
    /\ last.op = "updateAppointment"
    /\ last.fault = "update"
    /\ LastCalls = <<"findById", "findConflicts", "findById", "update">>
    /\ last.res.kind = "DatabaseError"
    /\ appointments = last.before

\* a booking stored and answered ok although a storage operation of the
\* call, the update of the caller's last-call time, failed
C26_SwallowedFailure ==
    /\ last.op = "createAppointment"
    /\ last.fault = "updateLastCall"
    /\ FaultHit
    /\ last.res.kind = "ok"
    /\ Len(appointments) = Len(last.before) + 1

\* ------------------------------------------------------------------------
\* Separation of the active appointments
\* ------------------------------------------------------------------------
\* one of the two ends more than the buffer before the other starts
SeparatedByBuffer(a, b) ==
    \/ a.end_time_utc + APPOINTMENT_BUFFER_MINUTES < b.start_time_utc
    \/ b.end_time_utc + APPOINTMENT_BUFFER_MINUTES < a.start_time_utc

\* C27: after any sequence of createAppointment, updateAppointment and
\* cancelAppointment calls executed one at a time, any two distinct
\* appointments whose statuses are both scheduled or confirmed are separated
\* by more than the buffer, also after a status-only update and for
\* appointments of a non-default duration.
C27_ActiveSeparated ==
    \A i, j \in Ids(appointments) :
        (i # j /\ appointments[i].status \in ActiveStatuses
               /\ appointments[j].status \in ActiveStatuses)
            => SeparatedByBuffer(appointments[i], appointments[j])

\* a status-only update put a rescheduled appointment back to scheduled
\* next to an active appointment that is not separated from it
C27_RestoredOnTopOfActive ==
    /\ last.op = "updateAppointment"
    /\ last.res.kind = "ok"
    /\ last.updates = [NoUpdates EXCEPT !.status = "scheduled"]
    /\ last.before[last.id].status = "rescheduled"
    /\ \E other \in Ids(appointments) \ {last.id} :
          /\ appointments[other].status \in ActiveStatuses
          /\ ~SeparatedByBuffer(appointments[last.id], appointments[other])

\* a booking of 60 minutes stored next to an active appointment that is not
\* separated from it
C27_LongBookingTooClose ==
    /\ last.op = "createAppointment"
    /\ last.res.kind = "ok"
    /\ last.input.durationMinutes = 60
    /\ \E other \in Ids(last.before) :
          /\ appointments[other].status \in ActiveStatuses
          /\ ~SeparatedByBuffer(appointments[last.res.id], appointments[other])

\* C28: every change of a stored appointment's status made by
\* updateAppointment or cancelAppointment is a pair of the status transition
\* table; cancelAppointment moves an appointment to cancelled only from
\* scheduled or confirmed.
C28_StatusChangesInTable ==
    [][\A id \in Ids(appointments) :
          appointments'[id].status # appointments[id].status
             => <<appointments[id].status, appointments'[id].status>>
                   \in AllowedTransitions]_vars

\* cancelAppointment accepted on a no_show or rescheduled appointment, which
\* is now cancelled
C28_CancelledOutsideTable ==
    /\ last.op = "cancelAppointment"
    /\ last.res.kind = "ok"
    /\ last.before[last.id].status \in {"no_show", "rescheduled"}
    /\ appointments[last.id].status = "cancelled"

\* C28 (updateAppointment alone): every change of status made by
\* updateAppointment is a pair of the table.
C28_UpdateChangesInTable ==
    [][last'.op = "updateAppointment"
          => \A id \in Ids(appointments) :
                appointments'[id].status # appointments[id].status
                   => <<appointments[id].status, appointments'[id].status>>
                         \in AllowedTransitions]_vars

\* ------------------------------------------------------------------------
\* The interval tested and the interval stored
\* ------------------------------------------------------------------------
\* the window checkConflicts tested is the row's stored interval, expanded
\* by the buffer on both sides
TestedIsStored(date, time, row) ==
    /\ bufferedStart(date, time) = row.start_time_utc - APPOINTMENT_BUFFER_MINUTES
    /\ bufferedEnd(date, time) = row.end_time_utc + APPOINTMENT_BUFFER_MINUTES

\* C29: the interval createAppointment and updateAppointment test for
\* conflicts is the interval then stored: its end is the start plus the
\* duration persisted for the appointment (input.durationMinutes on create,
\* the existing duration_minutes on update), not plus the default duration.
C29_TestedIntervalStored ==
    /\ (last.op = "createAppointment" /\ last.res.kind = "ok")
          => TestedIsStored(last.input.appointmentDate, last.input.appointmentTime,
                            appointments[last.res.id])
    /\ MoveDone
          => TestedIsStored(requestedDate(last.before[last.id], last.updates),
                            requestedTime(last.before[last.id], last.updates),
                            appointments[last.id])

\* a 60-minute booking stored after a conflict test of its first 30 minutes
C29_LongBookingHalfTested ==
    /\ last.op = "createAppointment"
    /\ last.res.kind = "ok"
    /\ appointments[last.res.id].duration_minutes = 60
    /\ bufferedEnd(last.input.appointmentDate, last.input.appointmentTime)
          = appointments[last.res.id].end_time_utc + APPOINTMENT_BUFFER_MINUTES - 30

\* a 60-minute appointment moved after a conflict test of the first 30
\* minutes of its new interval
C29_LongMoveHalfTested ==
    /\ MoveDone
    /\ appointments[last.id].duration_minutes = 60
    /\ bufferedEnd(requestedDate(last.before[last.id], last.updates),
                   requestedTime(last.before[last.id], last.updates))
          < appointments[last.id].end_time_utc + APPOINTMENT_BUFFER_MINUTES

\* C29 (default duration): for an appointment of the default duration the
\* interval tested is the interval stored.
C29_DefaultTestedIntervalStored ==
    /\ (last.op = "createAppointment" /\ last.res.kind = "ok"
          /\ appointments[last.res.id].duration_minutes = APPOINTMENT_DURATION_MINUTES)
          => TestedIsStored(last.input.appointmentDate, last.input.appointmentTime,
                            appointments[last.res.id])
    /\ (MoveDone
          /\ appointments[last.id].duration_minutes = APPOINTMENT_DURATION_MINUTES)
          => TestedIsStored(requestedDate(last.before[last.id], last.updates),
                            requestedTime(last.before[last.id], last.updates),
                            appointments[last.id])

\* ------------------------------------------------------------------------
\* The slots offered and the bookings accepted
\* ------------------------------------------------------------------------
\* a createAppointment for (date, time) issued now passes the past-date,
\* business-hours and conflict checks
Bookable(date, time) ==
    /\ ~IsError(validateAppointmentTime(date, time, now))
    /\ ~IsError(checkConflicts(appointments, date, time, NoId, NoFault))

\* getAvailableSlots was executed last, with the default duration
DefaultSlotsReturned ==
    /\ last.op = "getAvailableSlots"
    /\ last.res.kind = "ok"
    /\ last.input.durationMinutes = APPOINTMENT_DURATION_MINUTES

\* C30: every time returned by getAvailableSlots(date, default duration) is
\* bookable: a createAppointment for that date and time issued before any
\* other write passes the past-date, business-hours and conflict checks; no
\* slot is returned for a date whose weekday is not an open day.
C30_SlotsBookable ==
    DefaultSlotsReturned
       => /\ \A i \in DOMAIN last.slots :
                Bookable(last.input.appointmentDate, last.slots[i])
          /\ getDay(last.input.appointmentDate) \notin businessDays
                => last.slots = << >>

\* slots returned for a Saturday, a closed day, where no booking is accepted
C30_ClosedDaySlotsOffered ==
    /\ DefaultSlotsReturned
    /\ getDay(last.input.appointmentDate) \notin businessDays
    /\ last.slots # << >>
    /\ \A i \in DOMAIN last.slots :
          validateAppointmentTime(last.input.appointmentDate, last.slots[i], now).kind
             = "BusinessRuleError"

\* C30 (open days): on an open day with at most LIST_LIMIT active
\* appointments every slot returned is bookable.
C30_OpenDaySlotsBookable ==
    (DefaultSlotsReturned
        /\ getDay(last.input.appointmentDate) \in businessDays
        /\ Cardinality(listMatches(appointments, NoId, ActiveStatuses,
                                   last.input.appointmentDate,
                                   last.input.appointmentDate)) <= LIST_LIMIT)
       => \A i \in DOMAIN last.slots :
             Bookable(last.input.appointmentDate, last.slots[i])

\* slots returned for an open day with appointments booked on it
C30_OpenDaySlotsOffered ==
    /\ DefaultSlotsReturned
    /\ getDay(last.input.appointmentDate) \in businessDays
    /\ last.slots # << >>
    /\ appointments # << >>

\* ------------------------------------------------------------------------
\* Bookings and moves near opening and closing: on the open Friday and
\* Monday and on the closed Saturday, at 08:59, 09:00, 16:30, 16:31, 17:00
\* and 17:01, of the default duration and of 60 minutes.
\* ------------------------------------------------------------------------
EdgeTimes ==
    {businessHoursStart - 1, businessHoursStart, businessHoursEnd - 30,
     businessHoursEnd - 29, businessHoursEnd, businessHoursEnd + 1}

EdgeInputs ==
    [patientPhone : {CallerPhone}, appointmentDate : {1, 2, BusyDate},
     appointmentTime : EdgeTimes, durationMinutes : Durations]

NextHours ==
    \/ \E input \in EdgeInputs : CreateAppointment(input, CallerPhone, NoFault)
    \/ \E id \in AppointmentIds, updates \in MoveUpdates(EdgeTimes) :
          UpdateAppointment(id, updates, NoFault)

SpecHours == Init /\ [][NextHours]_vars

\* the row lies wholly inside business hours, in local time
InsideBusinessHours(row) ==
    /\ getDay(row.appointment_date) \in businessDays
    /\ civilTime(row.appointment_time) >= businessHoursStart
    /\ civilTime(row.appointment_time) + row.duration_minutes <= businessHoursEnd

\* C31: every appointment accepted by createAppointment or moved by
\* updateAppointment lies wholly inside business hours: on an open weekday,
\* local start at or after opening, local end at or before closing.
C31_WhollyInsideHours ==
    /\ (last.op = "createAppointment" /\ last.res.kind = "ok")
          => InsideBusinessHours(appointments[last.res.id])
    /\ MoveDone => InsideBusinessHours(appointments[last.id])

\* a booking accepted at the closing minute: it ends after closing
C31_BookedAtClosing ==
    /\ last.op = "createAppointment"
    /\ last.res.kind = "ok"
    /\ civilTime(appointments[last.res.id].appointment_time) = businessHoursEnd
    /\ civilTime(appointments[last.res.id].appointment_time)
          + appointments[last.res.id].duration_minutes > businessHoursEnd

\* an appointment moved to 16:31: it ends after closing
C31_MovedPastClosing ==
    /\ MoveDone
    /\ civilTime(appointments[last.id].appointment_time) = businessHoursEnd - 29
    /\ ~InsideBusinessHours(appointments[last.id])

\* C31 (start only): every appointment accepted or moved starts on an open
\* weekday between opening and closing.
C31_StartInsideHours ==
    /\ (last.op = "createAppointment" /\ last.res.kind = "ok")
          => isWithinBusinessHours(appointments[last.res.id].appointment_date,
                civilTime(appointments[last.res.id].appointment_time))
    /\ MoveDone
          => isWithinBusinessHours(appointments[last.id].appointment_date,
                civilTime(appointments[last.id].appointment_time))

\* ------------------------------------------------------------------------
\* Updates of appointments in a terminal status
\* ------------------------------------------------------------------------
\* updateAppointment was executed last on a stored appointment that was
\* cancelled or completed
TerminalUpdated ==
    /\ last.op = "updateAppointment"
    /\ last.id \in Ids(last.before)
    /\ last.before[last.id].status \in {"cancelled", "completed"}

\* C32: updateAppointment on an appointment whose status is cancelled or
\* completed fails and leaves the record unchanged: its date, time and UTC
\* interval stay what they were.
C32_TerminalNotMoved ==
    TerminalUpdated
       => /\ IsError(last.res)
          /\ appointments[last.id] = last.before[last.id]

\* a cancelled appointment moved to another time by an update that carries
\* no status
C32_CancelledMoved ==
    /\ TerminalUpdated
    /\ last.res.kind = "ok"
    /\ last.before[last.id].status = "cancelled"
    /\ appointments[last.id].status = "cancelled"
    /\ appointments[last.id].start_time_utc # last.before[last.id].start_time_utc
    /\ appointments[last.id].end_time_utc # last.before[last.id].end_time_utc

\* C32 (updates that carry a status): an update that names a status fails
\* on a cancelled or completed appointment and leaves the record unchanged.
C32_TerminalStatusUpdateRefused ==
    (TerminalUpdated /\ last.updates.status # NoString)
       => /\ last.res.kind = "BusinessRuleError"
          /\ appointments = last.before

\* ------------------------------------------------------------------------
\* Concurrent find-or-create for one new phone number (user.repository.ts
\* 65-109 over the UNIQUE phone_number column, part_001 8-18).
\* ------------------------------------------------------------------------
FindOrCreateFailed(t) ==
    /\ tasks[t].op = "createAppointment"
    /\ tasks[t].pc = "done"
    /\ tasks[t].res = DatabaseError("Failed to create user")

\* C33: under any interleaving of concurrent find-or-create calls for one
\* canonical phone that has no user yet, at most one user row with that
\* phone exists and every one of those calls completes with that user
\* rather than failing.
C33_ConcurrentFindOrCreate ==
    /\ \A u1, u2 \in UserIds(users) :
          users[u1].phone_number = users[u2].phone_number => u1 = u2
    /\ \A t \in TaskIds : ~FindOrCreateFailed(t)

\* C33: two calls for the same new phone both found no user; one inserted
\* the row and went on, the other's insert was refused and its call failed.
C33_LosingInsertFailed ==
    \E t1, t2 \in TaskIds :
        /\ t1 # t2
        /\ FindOrCreateFailed(t1)
        /\ tasks[t2].op = "createAppointment"
        /\ tasks[t2].userId # NoId
        /\ tasks[t1].phone = tasks[t2].phone
        /\ Cardinality({u \in UserIds(users) :
                           users[u].phone_number = tasks[t1].phone}) = 1

\* C33: the UNIQUE column keeps at most one user row per phone number.
C33_OneRowPerPhone ==
    \A u1, u2 \in UserIds(users) :
        users[u1].phone_number = users[u2].phone_number => u1 = u2

\* ------------------------------------------------------------------------
\* What a rejected booking leaves behind (part_008 39-76: findOrCreate runs
\* before validateAppointmentTime and checkConflicts).
\* ------------------------------------------------------------------------
CreateRejected ==
    /\ "res" \in DOMAIN last
    /\ last.op = "createAppointment"
    /\ last.res.kind \in {"BusinessRuleError", "ConflictError"}

\* C34: a createAppointment call rejected with BusinessRuleError or
\* ConflictError leaves the store exactly as it was: no appointment row and
\* no user row is added, and no user's total_appointments or last_call_at
\* is changed.
C34_RejectedLeavesStore ==
    CreateRejected => /\ appointments = last.before
                      /\ users = last.usersBefore

\* C34: a booking by a caller without a user row was rejected and the user
\* row it created stayed.
C34_RejectedAddedUser ==
    /\ CreateRejected
    /\ appointments = last.before
    /\ Len(users) = Len(last.usersBefore) + 1

\* C34: a booking by a known caller was rejected for a conflict and the
\* caller's last_call_at was moved to the time of the rejected call.
C34_RejectedTouchedLastCall ==
    /\ CreateRejected
    /\ last.res.kind = "ConflictError"
    /\ Len(users) = Len(last.usersBefore)
    /\ \E u \in UserIds(users) :
          /\ users[u].last_call_at # last.usersBefore[u].last_call_at
          /\ users[u].last_call_at = last.clock

\* C34: a rejected booking adds no appointment and changes no counter.
C34_RejectedAddsNoAppointment ==
    CreateRejected =>
        /\ appointments = last.before
        /\ \A u \in UserIds(last.usersBefore) :
              users[u].total_appointments = last.usersBefore[u].total_appointments

\* ------------------------------------------------------------------------
\* Order of the steps of inbound-call handling (ultravox.types.ts 132-190)
\* ------------------------------------------------------------------------
\* the call-log row of the call exists and belongs to an existing user
CallLogged(callSid) ==
    \E i \in DOMAIN callLogs :
        /\ callLogs[i].call_sid = callSid
        /\ callLogs[i].user_id \in UserIds(users)

\* the correlation entry of the call's session holds the call's callSid and
\* the id of the user its call-log row was created for
SessionCached(callSid) ==
    \E e \in cache :
        /\ e.key = callSid
        /\ e.value.callSid = callSid
        /\ \E i \in DOMAIN callLogs :
              /\ callLogs[i].call_sid = callSid
              /\ callLogs[i].user_id = e.value.userId

\* the outcomes of the handler in which startSession was called
SessionStarted == response.cause \in {"session", "cache", "none"}

C35_SessionStartedCacheFailed ==
    /\ InboundHandled
    /\ response.cause = "cache"
    /\ CallLogged(last.args.callSid)

\* ------------------------------------------------------------------------
\* The two overlap tests side by side: the query of findConflicts on the
\* request widened by the buffer (part_008 240-268, user.service.ts 419-452)
\* and hasTimeConflict as the slot listing calls it (part_008 333-345).
\* ------------------------------------------------------------------------
\* a table holding one active appointment over the given interval
OneActive(existingStart, existingEnd) ==
    << [status |-> "scheduled", start_time_utc |-> existingStart,
        end_time_utc |-> existingEnd] >>

\* the booking test: the conflict query on the buffered request finds the row
BookingConflict(newStart, newEnd, existingStart, existingEnd, bufferMinutes) ==
    findConflicts(OneActive(existingStart, existingEnd),
                  addMinutes(newStart, -bufferMinutes),
                  addMinutes(newEnd, bufferMinutes), NoId) # {}

\* C36: the overlap test used for booking (findConflicts on the request
\* expanded by the buffer) and the one used for slot listing
\* (hasTimeConflict with the buffer on the existing interval) give the same
\* answer for every pair of intervals and every buffer >= 0, boundaries
\* included.
C36_OverlapTestsAgree ==
    ("args" \in DOMAIN last /\ last.op = "hasTimeConflict")
    => (last.value
          <=> BookingConflict(last.args.newStart, last.args.newEnd,
                              last.args.existingStart, last.args.existingEnd,
                              last.args.bufferMinutes))

\* C36: a request ending exactly on the buffered start of the existing
\* interval is a conflict for both tests.
C36_TouchingBufferedStart ==
    /\ "args" \in DOMAIN last /\ last.op = "hasTimeConflict"
    /\ last.args.bufferMinutes > 0
    /\ last.args.newStart < last.args.newEnd
    /\ last.args.newEnd = last.args.existingStart - last.args.bufferMinutes
    /\ last.value
    /\ BookingConflict(last.args.newStart, last.args.newEnd,
                       last.args.existingStart, last.args.existingEnd,
                       last.args.bufferMinutes)

\* C36: a request wrapping the buffered existing interval is a conflict for
\* both tests, and one lying clear of it for neither.
C36_WrappingConflicts ==
    /\ "args" \in DOMAIN last /\ last.op = "hasTimeConflict"
    /\ last.args.newStart < last.args.existingStart - last.args.bufferMinutes
    /\ last.args.newEnd > last.args.existingEnd + last.args.bufferMinutes
    /\ last.value

C36_ClearOfBuffer ==
    /\ "args" \in DOMAIN last /\ last.op = "hasTimeConflict"
    /\ last.args.newStart > last.args.existingEnd + last.args.bufferMinutes
    /\ ~last.value

\* ------------------------------------------------------------------------
\* The cache client singleton (env.ts 111-203).  A call of getRedisClient
\* runs without interruption up to its await of connect(); the events of a
\* client, the settling of connect() and of quit(), and other calls may
\* come in between.  A client is open from createClient until it is closed
\* by quit(), by disconnect() or by its reconnect strategy giving up.
\* ------------------------------------------------------------------------
MaxClients == 3
ClientIds == DOMAIN redisState.clients
OpenClients == {c \in ClientIds : redisState.clients[c] # "closed"}
RedisFree(k) == redisState.calls[k].pc \in {"idle", "done"}
StatusOf(clients, c) == IF c = NoId THEN "none" ELSE clients[c]

\* getRedisClient up to its first await
GetRedisClient(k, enabled) ==
    /\ RedisFree(k)
    /\ IF ~enabled
       THEN /\ redisState' = [redisState EXCEPT !.calls[k] =
                            [pc |-> "done", client |-> NoId, res |-> NoId,
                             failed |-> TRUE]]
            /\ last' = Applied("getRedisClient",
                               [call |-> k, enabled |-> enabled,
                                replaced |-> NoId, replacedStatus |-> "none"],
                               NoId)
       ELSE IF redisState.redisClient # NoId /\ redisState.isConnected
       THEN /\ redisState' = [redisState EXCEPT !.calls[k] =
                            [pc |-> "done", client |-> redisState.redisClient,
                             res |-> redisState.redisClient, failed |-> FALSE]]
            /\ last' = Applied("getRedisClient",
                               [call |-> k, enabled |-> enabled,
                                replaced |-> NoId, replacedStatus |-> "none"],
                               redisState.redisClient)
       ELSE LET created == Len(redisState.clients) + 1
            IN /\ created <= MaxClients
               /\ redisState' = [redisState EXCEPT
                               !.clients = Append(@, "connecting"),
                               !.redisClient = created,
                               !.calls[k] = [pc |-> "connect", client |-> created,
                                             res |-> NoId, failed |-> FALSE]]
               /\ last' = Applied("getRedisClient",
                                  [call |-> k, enabled |-> enabled,
                                   replaced |-> redisState.redisClient,
                                   replacedStatus |->
                                       StatusOf(redisState.clients, redisState.redisClient)],
                                  created)
    /\ UNCHANGED <<appointments, users, now, tasks, response, callLogs, cache>>

\* await redisClient.connect() settles: the call returns the module's
\* redisClient once its client is ready, or throws once it has given up
ConnectSettled(k) ==
    /\ redisState.calls[k].pc = "connect"
    /\ redisState.clients[redisState.calls[k].client] \in {"ready", "closed"}
    /\ redisState' = [redisState EXCEPT !.calls[k] =
          IF redisState.clients[@.client] = "ready"
          THEN [@ EXCEPT !.pc = "done", !.res = redisState.redisClient]
          ELSE [@ EXCEPT !.pc = "done", !.failed = TRUE]]
    /\ UNCHANGED <<appointments, users, now, last, tasks, response, callLogs, cache>>

\* the event handlers registered on every client
OnError(c) ==
    /\ redisState.clients[c] \in {"connecting", "connected", "ready"}
    /\ redisState' = [redisState EXCEPT !.clients[c] = "errored", !.isConnected = FALSE]
    /\ UNCHANGED <<appointments, users, now, last, tasks, response, callLogs, cache>>

OnConnect(c) ==
    /\ redisState.clients[c] \in {"connecting", "reconnecting"}
    /\ redisState' = [redisState EXCEPT !.clients[c] = "connected", !.isConnected = TRUE]
    /\ UNCHANGED <<appointments, users, now, last, tasks, response, callLogs, cache>>

OnReconnecting(c) ==
    /\ redisState.clients[c] = "errored"
    /\ redisState' = [redisState EXCEPT !.clients[c] = "reconnecting", !.isConnected = FALSE]
    /\ UNCHANGED <<appointments, users, now, last, tasks, response, callLogs, cache>>

OnReady(c) ==
    /\ redisState.clients[c] = "connected"
    /\ redisState' = [redisState EXCEPT !.clients[c] = "ready", !.isConnected = TRUE]
    /\ UNCHANGED <<appointments, users, now, last, tasks, response, callLogs, cache>>

\* reconnectStrategy returns an Error after the last retry: the client
\* reports the error and closes
ReconnectGaveUp(c) ==
    /\ redisState.clients[c] = "errored"
    /\ redisState' = [redisState EXCEPT !.clients[c] = "closed", !.isConnected = FALSE]
    /\ UNCHANGED <<appointments, users, now, last, tasks, response, callLogs, cache>>

\* closeRedis up to its await of quit()
CloseRedis ==
    /\ redisState.closing = NoId
    /\ redisState.redisClient # NoId /\ redisState.isConnected
    /\ redisState' = [redisState EXCEPT !.closing = redisState.redisClient]
    /\ UNCHANGED <<appointments, users, now, last, tasks, response, callLogs, cache>>

\* quit() settles: it succeeds on a ready client and closes it, or fails on
\* a closed one and the client now in redisClient is disconnected
QuitSettled ==
    /\ redisState.closing # NoId
    /\ redisState.clients[redisState.closing] \in {"ready", "closed"}
    /\ redisState' = [redisState EXCEPT
          !.clients = IF @[redisState.closing] = "ready"
                      THEN [@ EXCEPT ![redisState.closing] = "closed"]
                      ELSE IF redisState.redisClient # NoId
                      THEN [@ EXCEPT ![redisState.redisClient] = "closed"]
                      ELSE @,
          !.isConnected = FALSE,
          !.redisClient = NoId,
          !.closing = NoId]
    /\ UNCHANGED <<appointments, users, now, last, tasks, response, callLogs, cache>>

NextRedis ==
    \/ \E k \in RedisCalls, enabled \in BOOLEAN : GetRedisClient(k, enabled)
    \/ \E k \in RedisCalls : ConnectSettled(k)
    \/ \E c \in ClientIds : OnError(c)
    \/ \E c \in ClientIds : OnConnect(c)
    \/ \E c \in ClientIds : OnReconnecting(c)
    \/ \E c \in ClientIds : OnReady(c)
    \/ \E c \in ClientIds : ReconnectGaveUp(c)
    \/ CloseRedis
    \/ QuitSettled

SpecRedis == Init /\ [][NextRedis]_vars

ClientCreated == "args" \in DOMAIN last /\ last.op = "getRedisClient"

\* C37: under any interleaving of concurrent getRedisClient calls and
\* client events, at most one Redis client has been created and not yet
\* closed at any time; no still-open client is replaced and orphaned.
C37_AtMostOneOpenClient == Cardinality(OpenClients) <= 1

\* C37: a second getRedisClient call, issued before the first client's
\* connect completed, created a client of its own; both are now ready and
\* the first is no longer referenced.
C37_SecondCreatedWhileConnecting ==
    /\ ClientCreated
    /\ last.args.replacedStatus = "connecting"
    /\ redisState.redisClient = last.value
    /\ redisState.clients[last.value] = "ready"
    /\ redisState.clients[last.args.replaced] = "ready"

\* C37: an error event cleared the connected flag of a ready client, the
\* next call replaced the client while it had not yet reconnected, and it
\* then did reconnect, unreferenced.
C37_ReplacedWhileReconnecting ==
    /\ ClientCreated
    /\ last.args.replacedStatus \in {"errored", "reconnecting"}
    /\ redisState.redisClient = last.value
    /\ redisState.clients[last.args.replaced] = "ready"

\* C37: calls issued one after the other while the client stays ready get
\* the one client.
C37_SingleClientReused ==
    /\ \A k \in RedisCalls : redisState.calls[k].pc = "done" /\ redisState.calls[k].res = 1
    /\ OpenClients = {1}
====
